---- MODULE Spec2Model ----
(***************************************************************************)
(* Model of the TianShanOS font tools:                                     *)
(*   tools/bdf2fnt.py  - BDF bitmap font  -> fixed-size    .fnt container  *)
(*   tools/ttf2fnt.py  - TrueType outline -> variable-size .fnt container  *)
(* A run of either tool is a sequence of steps over a program counter; the *)
(* destination file is a byte sequence that the steps open and append to.  *)
(***************************************************************************)
EXTENDS Integers, Sequences, FiniteSets, TLC

VARIABLES
    tool,       \* which converter runs: "bdf" or "ttf"
    pc,         \* position of the run
    args,       \* command line / input of the run
    codepoints, \* ttf: result of get_font_codepoints
    cursor,     \* ttf: number of candidates already rendered
    returns,    \* ttf: what render_glyph returned for each candidate so far
    glyphs,     \* ttf: glyphs list; bdf: rendered list
    mem,        \* in-memory pieces assembled before writing
    file,       \* destination path: [exists, data]
    before,     \* the destination path as it was when the run started
    exit        \* exit status of the process (-1 while running)

vars == <<tool, pc, args, codepoints, cursor, returns, glyphs, mem, file, before, exit>>

(***************************************************************************)
(* Bounds of the model.                                                    *)
(***************************************************************************)
MaxGlyphs == 2      \* glyph blocks in a BDF source
MaxInk == 2         \* ink box width/height the outline rasterizer returns
MaxCanvas == 3      \* font bounding box / ascent / override values
MaxRows == 2        \* bitmap rows of a glyph handed to render_glyph_to_fixed_size

(***************************************************************************)
(* Arithmetic helpers: Python's struct.pack and integer operators.         *)
(***************************************************************************)
RECURSIVE Pow2(_)
Pow2(n) == IF n <= 0 THEN 1 ELSE 2 * Pow2(n - 1)

\* struct.pack raises struct.error unless 0 <= v < 2^(8*nbytes); every integer
\* of the model is below 2^31, so a 4-byte field only rejects negatives
Fits(v, nbytes) == v >= 0 /\ (nbytes >= 4 \/ v < Pow2(8 * nbytes))

\* little-endian unsigned field of nbytes bytes ('<B', '<H', '<I')
LE(v, nbytes) == [k \in 1..nbytes |-> (v \div Pow2(8 * (k - 1))) % 256]

RECURSIVE Concat(_)
Concat(ss) == IF ss = <<>> THEN <<>> ELSE Head(ss) \o Concat(Tail(ss))

Max(a, b) == IF a >= b THEN a ELSE b

\* (n + 7) // 8
CeilDiv8(n) == (n + 7) \div 8

\* b'TFNT'
FONT_MAGIC == <<84, 70, 78, 84>>
FONT_VERSION == 1

(***************************************************************************)
(* bdf2fnt.py: render_glyph_to_fixed_size                                  *)
(***************************************************************************)
\* canvas = [[0] * target_width for _ in range(target_height)]
NewCanvas(target_width, target_height) ==
    [y \in 1..target_height |-> [x \in 1..target_width |-> 0]]

\* an inner loop that moves a pixel left of the canvas onto column 0
RECURSIVE CopyBitsClamped(_, _, _, _, _, _, _)
CopyBitsClamped(canvas, row_val, canvas_y, glyph_left_x, bbx_w, target_width, bit_idx) ==
    IF bit_idx >= bbx_w THEN canvas
    ELSE LET canvas_x == Max(glyph_left_x + bit_idx, 0)
             byte_width == ((bbx_w + 7) \div 8) * 8
             bit_pos == byte_width - 1 - bit_idx
             nxt == IF canvas_x >= target_width THEN canvas
                    ELSE IF (row_val \div Pow2(bit_pos)) % 2 = 1
                         THEN [canvas EXCEPT ![canvas_y + 1][canvas_x + 1] = 1]
                         ELSE canvas
         IN CopyBitsClamped(nxt, row_val, canvas_y, glyph_left_x, bbx_w, target_width,
                            bit_idx + 1)

\* inner loop: for bit_idx in range(bbx_w)
RECURSIVE CopyBits(_, _, _, _, _, _, _)
CopyBits(canvas, row_val, canvas_y, glyph_left_x, bbx_w, target_width, bit_idx) ==
    IF bit_idx >= bbx_w THEN canvas
    ELSE LET canvas_x == glyph_left_x + bit_idx
             byte_width == ((bbx_w + 7) \div 8) * 8
             bit_pos == byte_width - 1 - bit_idx
             nxt == IF canvas_x < 0 \/ canvas_x >= target_width THEN canvas
                    ELSE IF (row_val \div Pow2(bit_pos)) % 2 = 1
                         THEN [canvas EXCEPT ![canvas_y + 1][canvas_x + 1] = 1]
                         ELSE canvas
         IN CopyBits(nxt, row_val, canvas_y, glyph_left_x, bbx_w, target_width, bit_idx + 1)

\* outer loop: for row_idx, row_val in enumerate(bitmap)
RECURSIVE CopyRows(_, _, _, _, _, _, _, _)
CopyRows(canvas, bitmap, glyph_top_y, glyph_left_x, bbx_w, target_width, target_height, row_idx) ==
    IF row_idx >= Len(bitmap) THEN canvas
    ELSE LET canvas_y == glyph_top_y + row_idx
             nxt == IF canvas_y < 0 \/ canvas_y >= target_height THEN canvas
                    ELSE CopyBits(canvas, bitmap[row_idx + 1], canvas_y, glyph_left_x,
                                  bbx_w, target_width, 0)
         IN CopyRows(nxt, bitmap, glyph_top_y, glyph_left_x, bbx_w, target_width,
                     target_height, row_idx + 1)

\* a placement that takes the baseline one row too low
PlaceGlyphLowBaseline(glyph, target_width, target_height, font_ascent) ==
    LET canvas == NewCanvas(target_width, target_height)
    IN IF glyph.bbx_w = 0 \/ glyph.bbx_h = 0 \/ glyph.bitmap = <<>> THEN canvas
       ELSE LET baseline_y == font_ascent
                glyph_top_y == baseline_y - (glyph.bbx_y + glyph.bbx_h - 1)
                glyph_left_x == glyph.bbx_x
            IN CopyRows(canvas, glyph.bitmap, glyph_top_y, glyph_left_x, glyph.bbx_w,
                        target_width, target_height, 0)

\* the canvas after placement (lines 137-174)
PlaceGlyph(glyph, target_width, target_height, font_ascent) ==
    LET canvas == NewCanvas(target_width, target_height)
    IN IF glyph.bbx_w = 0 \/ glyph.bbx_h = 0 \/ glyph.bitmap = <<>> THEN canvas
       ELSE LET baseline_y == font_ascent - 1
                glyph_top_y == baseline_y - (glyph.bbx_y + glyph.bbx_h - 1)
                glyph_left_x == glyph.bbx_x
            IN CopyRows(canvas, glyph.bitmap, glyph_top_y, glyph_left_x, glyph.bbx_w,
                        target_width, target_height, 0)

\* bits = []; for row in canvas: bits.extend(row)   (every row has the same length)
FlattenCanvas(canvas) ==
    LET rows == Len(canvas)
        cols == IF rows = 0 THEN 0 ELSE Len(canvas[1])
    IN [i \in 1..(rows * cols) |-> canvas[((i - 1) \div cols) + 1][((i - 1) % cols) + 1]]

\* a packer that sizes its buffer with len(bits) // 8 and loses the last bits
PackCanvasBitsFloor(bits) ==
    LET byte_count == Len(bits) \div 8
        Contribution(i) ==
            IF i < Len(bits) /\ bits[i + 1] # 0 THEN 128 \div Pow2(i % 8) ELSE 0
    IN [k \in 1..byte_count |->
          LET i0 == 8 * (k - 1)
          IN Contribution(i0) + Contribution(i0 + 1) + Contribution(i0 + 2)
             + Contribution(i0 + 3) + Contribution(i0 + 4) + Contribution(i0 + 5)
             + Contribution(i0 + 6) + Contribution(i0 + 7)]

\* result[i // 8] |= (0x80 >> (i % 8)) for every set bit i (lines 182-188):
\* byte k collects the bits i with i // 8 = k
PackCanvasBits(bits) ==
    LET byte_count == (Len(bits) + 7) \div 8
        Contribution(i) ==
            IF i < Len(bits) /\ bits[i + 1] # 0 THEN 128 \div Pow2(i % 8) ELSE 0
    IN [k \in 1..byte_count |->
          LET i0 == 8 * (k - 1)
          IN Contribution(i0) + Contribution(i0 + 1) + Contribution(i0 + 2)
             + Contribution(i0 + 3) + Contribution(i0 + 4) + Contribution(i0 + 5)
             + Contribution(i0 + 6) + Contribution(i0 + 7)]

render_glyph_to_fixed_size(glyph, target_width, target_height, font_ascent, font_descent) ==
    PackCanvasBits(FlattenCanvas(PlaceGlyph(glyph, target_width, target_height, font_ascent)))

(***************************************************************************)
(* ttf2fnt.py: the outline rasterizer (Pillow) is an oracle.  A measurement*)
(* is what font.getbbox and draw.text give for one character:              *)
(*   bbox : "raise" (getbbox throws), "none" (returns None) or "box"       *)
(*   w, h : bbox[2]-bbox[0], bbox[3]-bbox[1]                               *)
(*   img  : the grayscale canvas of (h+2) rows by (w+2) columns after      *)
(*          draw.text, intensities 0..255                                  *)
(***************************************************************************)
Patterns == {"solid", "blank", "faint", "dot", "mixed", "spill"}

\* intensity the rasterizer leaves at canvas pixel (r, c), 0-indexed
Intensity(pattern, r, c, w, h) ==
    LET inside == r >= 1 /\ r <= h /\ c >= 1 /\ c <= w
    IN CASE pattern = "solid" -> IF inside THEN 255 ELSE 0
         [] pattern = "blank" -> 0
         [] pattern = "faint" -> IF inside THEN 30 ELSE 0
         [] pattern = "dot"   -> IF r = 1 /\ c = 1 THEN 255 ELSE 0
         [] pattern = "mixed" -> IF ~inside THEN 0
                                 ELSE IF (r + c) % 2 = 0 THEN 31 ELSE 30
         [] pattern = "spill" -> IF inside THEN 255 ELSE 31

Raster(pattern, w, h) ==
    [r \in 1..(h + 2) |-> [c \in 1..(w + 2) |-> Intensity(pattern, r - 1, c - 1, w, h)]]

Measurements ==
    {[bbox |-> "raise", w |-> 0, h |-> 0, img |-> <<>>],
     [bbox |-> "none", w |-> 0, h |-> 0, img |-> <<>>]}
    \cup {[bbox |-> "box", w |-> w, h |-> h, img |-> <<>>] :
            w \in 0..MaxInk, h \in {0}}
    \cup {[bbox |-> "box", w |-> w, h |-> h, img |-> <<>>] :
            w \in {0}, h \in 0..MaxInk}
    \cup {[bbox |-> "box", w |-> w, h |-> h, img |-> Raster(p, w, h)] :
            w \in 1..MaxInk, h \in 1..MaxInk, p \in Patterns}

\* Image.getbbox(): bounding box of the non-zero pixels, or None
GetBBox(img) ==
    LET rows == {r \in 1..Len(img) : \E c \in 1..Len(img[r]) : img[r][c] # 0}
        cols == {c \in 1..Len(img[1]) : \E r \in 1..Len(img) : img[r][c] # 0}
        Lo(S) == CHOOSE x \in S : \A y \in S : x <= y
        Hi(S) == CHOOSE x \in S : \A y \in S : x >= y
    IN IF rows = {} THEN [none |-> TRUE, left |-> 0, upper |-> 0, right |-> 0, lower |-> 0]
       ELSE [none |-> FALSE, left |-> Lo(cols) - 1, upper |-> Lo(rows) - 1,
             right |-> Hi(cols), lower |-> Hi(rows)]

\* Image.crop(box)
Crop(img, box) ==
    [r \in 1..(box.lower - box.upper) |->
        [c \in 1..(box.right - box.left) |-> img[box.upper + r][box.left + c]]]

\* point(lambda x: 1 if x > 30 else 0, mode='1')
Threshold(img) ==
    [r \in 1..Len(img) |-> [c \in 1..Len(img[r]) |-> IF img[r][c] > 30 THEN 1 ELSE 0]]

\* a packing loop that fills each byte from its least significant bit
RECURSIVE PackPixelsLSB(_, _, _, _)
PackPixelsLSB(pixels, packed, byte, bit_pos) ==
    IF pixels = <<>>
    THEN IF bit_pos > 0 THEN Append(packed, byte) ELSE packed
    ELSE LET b == IF Head(pixels) # 0 THEN byte + Pow2(bit_pos) ELSE byte
         IN IF bit_pos + 1 = 8
            THEN PackPixelsLSB(Tail(pixels), Append(packed, b), 0, 0)
            ELSE PackPixelsLSB(Tail(pixels), packed, b, bit_pos + 1)

\* the packing loop of render_glyph (lines 121-137)
RECURSIVE PackPixels(_, _, _, _)
PackPixels(pixels, packed, byte, bit_pos) ==
    IF pixels = <<>>
    THEN IF bit_pos > 0 THEN Append(packed, byte) ELSE packed
    ELSE LET b == IF Head(pixels) # 0 THEN byte + Pow2(7 - bit_pos) ELSE byte
         IN IF bit_pos + 1 = 8
            THEN PackPixels(Tail(pixels), Append(packed, b), 0, 0)
            ELSE PackPixels(Tail(pixels), packed, b, bit_pos + 1)

Unavailable == [avail |-> FALSE, bitmap |-> <<>>, width |-> 0, height |-> 0]

\* render_glyph(font, codepoint, size), with m the rasterizer's answer for chr(codepoint)
render_glyph(m, codepoint, size) ==
    IF m.bbox # "box" THEN Unavailable
    ELSE IF m.w <= 0 \/ m.h <= 0
    THEN IF codepoint = 32
         THEN [avail |-> TRUE, bitmap |-> <<0>>, width |-> size \div 3, height |-> size]
         ELSE Unavailable
    ELSE LET content_bbox == GetBBox(m.img)
         IN IF content_bbox.none THEN Unavailable
            ELSE LET glyph_img == Crop(m.img, content_bbox)
                     final_width == content_bbox.right - content_bbox.left
                     final_height == content_bbox.lower - content_bbox.upper
                     glyph_binary == Threshold(glyph_img)
                     pixels == Concat(glyph_binary)
                 IN [avail |-> TRUE, bitmap |-> PackPixels(pixels, <<>>, 0, 0),
                     width |-> final_width, height |-> final_height]

\* get_font_codepoints: the cmap keys >= 0x20, sorted ascending
RECURSIVE SortedSeq(_)
SortedSeq(S) ==
    IF S = {} THEN <<>>
    ELSE LET lo == CHOOSE x \in S : \A y \in S : x <= y
         IN <<lo>> \o SortedSeq(S \ {lo})

get_font_codepoints(cmap) == SortedSeq({cp \in cmap : cp >= 32})

(***************************************************************************)
(* bdf2fnt.py: create_fnt_file.  An optional value (None or an int) is a   *)
(* sequence of length 0 or 1.                                              *)
(***************************************************************************)
\* dict.get(key, default)
Get(opt, default) == IF opt = <<>> THEN default ELSE opt[1]

\* lines 203-204
FontAscent(properties) == Get(properties.ascent, Get(properties.fbb_height, 9))
\* a descent that falls back to the font bounding box height
FontDescentFromBox(properties) == Get(properties.descent, Get(properties.fbb_height, 9))

FontDescent(properties) == Get(properties.descent, 0)

\* lines 206-209
TargetWidth(a) ==
    IF a.width = <<>> THEN Get(a.properties.fbb_width, 9) ELSE a.width[1]
TargetHeight(a) ==
    IF a.height = <<>> THEN FontAscent(a.properties) + FontDescent(a.properties)
    ELSE a.height[1]

\* a filter with the upper limit off by one
InRangeOffByOne(encoding) == 0 < encoding /\ encoding <= 65536

\* line 214: [g for g in glyphs if 0 < g['encoding'] <= 65535]
InRange(encoding) == 0 < encoding /\ encoding <= 65535
ValidGlyphs(gs) == SelectSeq(gs, LAMBDA g : InRange(g.encoding))

\* line 215: list.sort(key=encoding), a stable sort
RECURSIVE InsertByEncoding(_, _)
InsertByEncoding(sorted, g) ==
    IF sorted = <<>> THEN <<g>>
    ELSE IF Head(sorted).encoding <= g.encoding
         THEN <<Head(sorted)>> \o InsertByEncoding(Tail(sorted), g)
         ELSE <<g>> \o sorted
\* no sort: the glyphs stay in source order
KeepSourceOrder(gs) == gs

RECURSIVE SortByEncoding(_)
SortByEncoding(gs) ==
    IF gs = <<>> THEN <<>>
    ELSE InsertByEncoding(SortByEncoding(SubSeq(gs, 1, Len(gs) - 1)), gs[Len(gs)])

\* lines 221-224: rendered = [(encoding, bitmap), ...]
RenderAll(a) ==
    LET valid_glyphs == SortByEncoding(ValidGlyphs(a.glyphs))
    IN [i \in 1..Len(valid_glyphs) |->
          [codepoint |-> valid_glyphs[i].encoding,
           bitmap |-> render_glyph_to_fixed_size(valid_glyphs[i], TargetWidth(a),
                          TargetHeight(a), FontAscent(a.properties),
                          FontDescent(a.properties))]]

\* line 227
BytesPerGlyph(target_width, target_height) == (target_width * target_height + 7) \div 8

\* line 249: offset of the i-th rendered glyph, i counted from 0
FntOffset(glyph_count, i, bytes_per_glyph) == 16 + glyph_count * 6 + i * bytes_per_glyph

\* lines 231-239: struct.pack('<4sBBBBII', ...) raises when a field does not fit
FntHeaderFits(target_width, target_height, glyph_count) ==
    Fits(target_width, 1) /\ Fits(target_height, 1) /\ Fits(glyph_count, 4)
\* a header that counts one glyph more than were rendered
FntHeaderCountOff(target_width, target_height, glyph_count) ==
    FONT_MAGIC \o LE(1, 1) \o LE(target_width, 1) \o LE(target_height, 1) \o LE(0, 1)
    \o LE(glyph_count + 1, 4) \o LE(16, 4)

FntHeader(target_width, target_height, glyph_count) ==
    FONT_MAGIC \o LE(1, 1) \o LE(target_width, 1) \o LE(target_height, 1) \o LE(0, 1)
    \o LE(glyph_count, 4) \o LE(16, 4)

\* line 250: struct.pack('<HI', codepoint, offset)
FntEntryFits(codepoint, offset) == Fits(codepoint, 2) /\ Fits(offset, 4)
FntEntry(codepoint, offset) == LE(codepoint, 2) \o LE(offset, 4)

\* lines 245-251
FntIndexFits(rendered, bytes_per_glyph) ==
    \A i \in 1..Len(rendered) :
        FntEntryFits(rendered[i].codepoint, FntOffset(Len(rendered), i - 1, bytes_per_glyph))
FntIndexData(rendered, bytes_per_glyph) ==
    Concat([i \in 1..Len(rendered) |->
              FntEntry(rendered[i].codepoint, FntOffset(Len(rendered), i - 1, bytes_per_glyph))])
FntBitmapData(rendered) == Concat([i \in 1..Len(rendered) |-> rendered[i].bitmap])

(***************************************************************************)
(* ttf2fnt.py: create_font_file                                            *)
(***************************************************************************)
\* a filter that only tests the bitmap
StoredAnySize(r) == r.avail /\ r.bitmap # <<>>

\* line 177: if bitmap and width > 0 and height > 0
Stored(r) == r.avail /\ r.bitmap # <<>> /\ r.width > 0 /\ r.height > 0

\* a fold that keeps the size of the last stored glyph instead of the maximum
RenderStepLastSize(acc, cp, r) ==
    IF Stored(r)
    THEN [glyphs |-> Append(acc.glyphs, [cp |-> cp, bitmap |-> r.bitmap,
                                         width |-> r.width, height |-> r.height]),
          max_width |-> r.width,
          max_height |-> r.height]
    ELSE acc

\* lines 177-180: one candidate's result folded into glyphs, max_width, max_height
RenderStep(acc, cp, r) ==
    IF Stored(r)
    THEN [glyphs |-> Append(acc.glyphs, [cp |-> cp, bitmap |-> r.bitmap,
                                         width |-> r.width, height |-> r.height]),
          max_width |-> Max(acc.max_width, r.width),
          max_height |-> Max(acc.max_height, r.height)]
    ELSE acc

\* lines 171-180: the whole render loop over the candidates' results
RECURSIVE RenderLoop(_, _)
RenderLoop(acc, rets) ==
    IF rets = <<>> THEN acc
    ELSE RenderLoop(RenderStep(acc, Head(rets).cp, Head(rets).ret), Tail(rets))

\* lines 205-213
FontHeaderFits(max_width, max_height, glyph_count) ==
    Fits(max_width, 1) /\ Fits(max_height, 1) /\ Fits(glyph_count, 4)
FontHeader(max_width, max_height, glyph_count) ==
    FONT_MAGIC \o LE(FONT_VERSION, 1) \o LE(max_width, 1) \o LE(max_height, 1) \o LE(1, 1)
    \o LE(glyph_count, 4) \o LE(0, 4)

\* line 220: struct.pack('<IIBB', cp, bitmap_offset, width, height)
FontEntryFits(g, bitmap_offset) ==
    Fits(g.cp, 4) /\ Fits(bitmap_offset, 4) /\ Fits(g.width, 1) /\ Fits(g.height, 1)
FontEntry(g, bitmap_offset) ==
    LE(g.cp, 4) \o LE(bitmap_offset, 4) \o LE(g.width, 1) \o LE(g.height, 1)

\* a loop that forgets to advance the running offset
AdvanceOffsetStuck(bitmap_offset, g) == bitmap_offset

\* line 222: bitmap_offset += len(bitmap)
AdvanceOffset(bitmap_offset, g) == bitmap_offset + Len(g.bitmap)

\* lines 217-222: the bytes the index loop writes; it stops at the first entry
\* whose pack raises
RECURSIVE FontIndexBytes(_, _)
FontIndexBytes(gs, bitmap_offset) ==
    IF gs = <<>> THEN <<>>
    ELSE IF ~FontEntryFits(Head(gs), bitmap_offset) THEN <<>>
    ELSE FontEntry(Head(gs), bitmap_offset)
         \o FontIndexBytes(Tail(gs), AdvanceOffset(bitmap_offset, Head(gs)))
RECURSIVE FontIndexFits(_, _)
FontIndexFits(gs, bitmap_offset) ==
    IF gs = <<>> THEN TRUE
    ELSE FontEntryFits(Head(gs), bitmap_offset)
         /\ FontIndexFits(Tail(gs), AdvanceOffset(bitmap_offset, Head(gs)))

\* lines 225-226
FontBlobBytes(gs) == Concat([i \in 1..Len(gs) |-> gs[i].bitmap])

(***************************************************************************)
(* Inputs of a run.                                                        *)
(***************************************************************************)
\* ENCODING values of the glyph records parse_bdf returns (all >= 0)
Encodings == {0, 1, 65535, 65536}

\* bounding box and bitmap rows of a glyph record
Shapes ==
    {[bbx_w |-> 0, bbx_h |-> 0, bbx_x |-> 0, bbx_y |-> 0, bitmap |-> <<>>],
     [bbx_w |-> 2, bbx_h |-> 2, bbx_x |-> 0, bbx_y |-> 0, bitmap |-> <<192, 64>>],
     [bbx_w |-> 1, bbx_h |-> 2, bbx_x |-> 1, bbx_y |-> -1, bitmap |-> <<128, 128, 128>>]}

BdfGlyph(e, s) ==
    [encoding |-> e, dwidth |-> 0, bbx_w |-> s.bbx_w, bbx_h |-> s.bbx_h,
     bbx_x |-> s.bbx_x, bbx_y |-> s.bbx_y, bitmap |-> s.bitmap]
BdfGlyphs == {BdfGlyph(e, s) : e \in Encodings, s \in Shapes}

SeqsUpTo(S, n) == UNION {[1..k -> S] : k \in 0..n}

Opt(S) == {<<>>} \cup {<<v>> : v \in S}

\* the properties dict parse_bdf returns
PropertySets ==
    [fbb_width : Opt({MaxCanvas}), fbb_height : Opt({MaxCanvas}),
     ascent : Opt({MaxCanvas - 1}), descent : Opt({1})]
SmallProperties ==
    [fbb_width |-> <<MaxCanvas>>, fbb_height |-> <<MaxCanvas>>, ascent |-> <<2>>, descent |-> <<1>>]

\* --width / --height
Overrides == {<<<<>>, <<>>>>, <<<<0>>, <<>>>>, <<<<0>>, <<256>>>>, <<<<2>>, <<2>>>>, <<<<256>>, <<0>>>>}

BdfRuns ==
    {[properties |-> p, glyphs |-> gs, width |-> <<>>, height |-> <<>>] :
        p \in PropertySets, gs \in SeqsUpTo({BdfGlyph(1, s) : s \in Shapes}, 1)}
    \cup {[properties |-> SmallProperties, glyphs |-> gs, width |-> o[1], height |-> o[2]] :
        gs \in SeqsUpTo(BdfGlyphs, MaxGlyphs), o \in Overrides}

\* cmap keys of the TrueType font, --size
CmapKeys == {31, 32, 65}
Sizes == {1, 3, 6, 256}
TtfRuns == [cmap : SUBSET CmapKeys, size : Sizes, load_ok : BOOLEAN]

\* the destination path before the run: absent, or an older file
NoFile == [exists |-> FALSE, data |-> <<>>]
OldFile == [exists |-> TRUE, data |-> <<79, 76, 68>>]

(***************************************************************************)
(* The runs.                                                               *)
(***************************************************************************)
Init ==
    /\ tool \in {"bdf", "ttf"}
    /\ args \in IF tool = "bdf" THEN BdfRuns ELSE TtfRuns
    /\ pc = "start"
    /\ codepoints = <<>>
    /\ cursor = 0
    /\ returns = <<>>
    /\ glyphs = <<>>
    /\ mem = [max_width |-> 0, max_height |-> 0]
    /\ file \in {NoFile, OldFile}
    /\ before = file
    /\ exit = -1

\* an uncaught exception ends the process with status 1; sys.exit(1) likewise
Fail(to) == pc' = to /\ exit' = 1

\* ---- bdf2fnt.py ----
\* lines 196-224: parse, derive the canvas, filter, sort, render
FntRender ==
    /\ tool = "bdf" /\ pc = "start"
    /\ glyphs' = RenderAll(args)
    /\ mem' = [target_width |-> TargetWidth(args), target_height |-> TargetHeight(args)]
    /\ pc' = "rendered"
    /\ UNCHANGED <<tool, args, codepoints, cursor, returns, file, exit, before>>

\* lines 227-251: header, index and blob assembled in memory
FntPack ==
    /\ tool = "bdf" /\ pc = "rendered"
    /\ LET bytes_per_glyph == BytesPerGlyph(mem.target_width, mem.target_height)
           glyph_count == Len(glyphs)
       IN IF FntHeaderFits(mem.target_width, mem.target_height, glyph_count)
             /\ FntIndexFits(glyphs, bytes_per_glyph)
          THEN /\ mem' = [target_width |-> mem.target_width,
                          target_height |-> mem.target_height,
                          header |-> FntHeader(mem.target_width, mem.target_height, glyph_count),
                          index_data |-> FntIndexData(glyphs, bytes_per_glyph),
                          bitmap_data |-> FntBitmapData(glyphs)]
               /\ pc' = "packed"
               /\ exit' = exit
          ELSE /\ Fail("raised")
               /\ mem' = mem
    /\ UNCHANGED <<tool, args, codepoints, cursor, returns, glyphs, file, before>>

\* line 254: open(fnt_path, 'wb') creates or truncates the destination
FntOpen ==
    /\ tool = "bdf" /\ pc = "packed"
    /\ file' = [exists |-> TRUE, data |-> <<>>]
    /\ pc' = "header"
    /\ UNCHANGED <<tool, args, codepoints, cursor, returns, glyphs, mem, exit, before>>

\* line 255
FntWriteHeader ==
    /\ tool = "bdf" /\ pc = "header"
    /\ file' = [file EXCEPT !.data = @ \o mem.header]
    /\ pc' = "index"
    /\ UNCHANGED <<tool, args, codepoints, cursor, returns, glyphs, mem, exit, before>>

\* line 256
FntWriteIndex ==
    /\ tool = "bdf" /\ pc = "index"
    /\ file' = [file EXCEPT !.data = @ \o mem.index_data]
    /\ pc' = "blob"
    /\ UNCHANGED <<tool, args, codepoints, cursor, returns, glyphs, mem, exit, before>>

\* line 257, then the file is closed and the run reports (lines 259-264)
FntWriteBlob ==
    /\ tool = "bdf" /\ pc = "blob"
    /\ file' = [file EXCEPT !.data = @ \o mem.bitmap_data]
    /\ pc' = "done"
    /\ exit' = 0
    /\ UNCHANGED <<tool, args, codepoints, cursor, returns, glyphs, mem, before>>

\* ---- ttf2fnt.py ----
\* line 156
FontScan ==
    /\ tool = "ttf" /\ pc = "start"
    /\ codepoints' = get_font_codepoints(args.cmap)
    /\ pc' = "load"
    /\ UNCHANGED <<tool, args, cursor, returns, glyphs, mem, file, exit, before>>

\* lines 161-165: ImageFont.truetype may fail; create_font_file returns False
FontLoad ==
    /\ tool = "ttf" /\ pc = "load"
    /\ IF args.load_ok THEN pc' = "render" /\ exit' = exit ELSE Fail("failed")
    /\ UNCHANGED <<tool, args, codepoints, cursor, returns, glyphs, mem, file, before>>

\* lines 175-180: one iteration of the render loop
FontRender ==
    /\ tool = "ttf" /\ pc = "render" /\ cursor < Len(codepoints)
    /\ \E m \in Measurements :
         LET cp == codepoints[cursor + 1]
             r == render_glyph(m, cp, args.size)
             acc == RenderStep([glyphs |-> glyphs, max_width |-> mem.max_width,
                                max_height |-> mem.max_height], cp, r)
         IN /\ returns' = Append(returns,
                                [cp |-> cp,
                                 empty_box |-> m.bbox = "box" /\ (m.w <= 0 \/ m.h <= 0),
                                 ret |-> r])
            /\ glyphs' = acc.glyphs
            /\ mem' = [max_width |-> acc.max_width, max_height |-> acc.max_height]
    /\ cursor' = cursor + 1
    /\ UNCHANGED <<tool, pc, args, codepoints, file, exit, before>>

\* lines 189-191: no glyph rendered -> return False
FontCheck ==
    /\ tool = "ttf" /\ pc = "render" /\ cursor = Len(codepoints)
    /\ IF glyphs = <<>> THEN Fail("failed") ELSE pc' = "open" /\ exit' = exit
    /\ UNCHANGED <<tool, args, codepoints, cursor, returns, glyphs, mem, file, before>>

\* line 201: open(output_path, 'wb') creates or truncates the destination
FontOpen ==
    /\ tool = "ttf" /\ pc = "open"
    /\ file' = [exists |-> TRUE, data |-> <<>>]
    /\ pc' = "header"
    /\ UNCHANGED <<tool, args, codepoints, cursor, returns, glyphs, mem, exit, before>>

\* lines 205-214: the header is packed with the file already open
FontWriteHeader ==
    /\ tool = "ttf" /\ pc = "header"
    /\ IF FontHeaderFits(mem.max_width, mem.max_height, Len(glyphs))
       THEN /\ file' = [file EXCEPT !.data = @ \o FontHeader(mem.max_width, mem.max_height, Len(glyphs))]
            /\ pc' = "index"
            /\ exit' = exit
       ELSE /\ Fail("raised")
            /\ file' = file
    /\ UNCHANGED <<tool, args, codepoints, cursor, returns, glyphs, mem, before>>

\* lines 217-222: the index loop
FontWriteIndex ==
    /\ tool = "ttf" /\ pc = "index"
    /\ file' = [file EXCEPT !.data = @ \o FontIndexBytes(glyphs, 16 + Len(glyphs) * 10)]
    /\ IF FontIndexFits(glyphs, 16 + Len(glyphs) * 10)
       THEN pc' = "blob" /\ exit' = exit
       ELSE Fail("raised")
    /\ UNCHANGED <<tool, args, codepoints, cursor, returns, glyphs, mem, before>>

\* lines 225-226, then the file is closed, the run reports and returns True
FontWriteBlob ==
    /\ tool = "ttf" /\ pc = "blob"
    /\ file' = [file EXCEPT !.data = @ \o FontBlobBytes(glyphs)]
    /\ pc' = "done"
    /\ exit' = 0
    /\ UNCHANGED <<tool, args, codepoints, cursor, returns, glyphs, mem, before>>

Next ==
    \/ FntRender \/ FntPack \/ FntOpen \/ FntWriteHeader \/ FntWriteIndex \/ FntWriteBlob
    \/ FontScan \/ FontLoad \/ FontRender \/ FontCheck \/ FontOpen
    \/ FontWriteHeader \/ FontWriteIndex \/ FontWriteBlob

Spec == Init /\ [][Next]_vars

(***************************************************************************)
(* bdf2fnt.py alone: the runs of the tool, and direct calls of             *)
(* render_glyph_to_fixed_size over a wider range of glyph records.         *)
(***************************************************************************)
\* bitmap rows as parse_bdf reads them: 0x00, 0xC0, 0xFF80
RowValues == {0, 192, 65408}

RenderInputs ==
    [glyph : [encoding : {65}, dwidth : {0}, bbx_w : {0, 2, 9}, bbx_h : 0..2,
              bbx_x : -1..1, bbx_y : -1..1, bitmap : SeqsUpTo(RowValues, MaxRows)],
     target_width : 0..MaxCanvas, target_height : 0..MaxCanvas,
     font_ascent : {0, MaxCanvas - 1, MaxCanvas}, font_descent : {0}]

InitFnt ==
    /\ tool \in {"bdf", "render"}
    /\ args \in IF tool = "bdf" THEN BdfRuns ELSE RenderInputs
    /\ pc = "start"
    /\ codepoints = <<>>
    /\ cursor = 0
    /\ returns = <<>>
    /\ glyphs = <<>>
    /\ mem = [max_width |-> 0, max_height |-> 0]
    /\ file \in IF tool = "bdf" THEN {NoFile, OldFile} ELSE {NoFile}
    /\ before = file
    /\ exit = -1

\* one call of render_glyph_to_fixed_size (lines 119-188)
RenderCall ==
    /\ tool = "render" /\ pc = "start"
    /\ mem' = [canvas |-> PlaceGlyph(args.glyph, args.target_width, args.target_height,
                                     args.font_ascent),
               bitmap |-> render_glyph_to_fixed_size(args.glyph, args.target_width,
                              args.target_height, args.font_ascent, args.font_descent)]
    /\ pc' = "done"
    /\ UNCHANGED <<tool, args, codepoints, cursor, returns, glyphs, file, before, exit>>

NextFnt ==
    \/ FntRender \/ FntPack \/ FntOpen \/ FntWriteHeader \/ FntWriteIndex \/ FntWriteBlob
    \/ RenderCall

SpecFnt == InitFnt /\ [][NextFnt]_vars

(***************************************************************************)
(* Reading a container back: the layout of the header and of the index.    *)
(***************************************************************************)
\* little-endian unsigned integer of n bytes at 0-based position pos
RECURSIVE U(_, _, _)
U(data, pos, n) == IF n = 0 THEN 0 ELSE data[pos + 1] + 256 * U(data, pos + 1, n - 1)

\* up to n bytes at 0-based position pos (a read stops at the end of the file)
ReadAt(data, pos, n) ==
    SubSeq(data, pos + 1, IF pos + n <= Len(data) THEN pos + n ELSE Len(data))

HdrDimA(data) == U(data, 5, 1)
HdrDimB(data) == U(data, 6, 1)
HdrFlags(data) == U(data, 7, 1)
HdrCount(data) == U(data, 8, 4)
EntrySize(data) == IF HdrFlags(data) = 0 THEN 6 ELSE 10
EntryPos(data, i) == 16 + i * EntrySize(data)
EntryCodepoint(data, i) ==
    IF HdrFlags(data) = 0 THEN U(data, EntryPos(data, i), 2) ELSE U(data, EntryPos(data, i), 4)
EntryOffset(data, i) ==
    IF HdrFlags(data) = 0 THEN U(data, EntryPos(data, i) + 2, 4)
    ELSE U(data, EntryPos(data, i) + 4, 4)
EntryWidth(data, i) ==
    IF HdrFlags(data) = 0 THEN HdrDimA(data) ELSE U(data, EntryPos(data, i) + 8, 1)
EntryHeight(data, i) ==
    IF HdrFlags(data) = 0 THEN HdrDimB(data) ELSE U(data, EntryPos(data, i) + 9, 1)
\* bytes the format defines for entry i
EntryLength(data, i) == CeilDiv8(EntryWidth(data, i) * EntryHeight(data, i))
Entries(data) == 0..(HdrCount(data) - 1)

\* the run wrote its container and ended normally
Written == pc = "done" /\ tool \in {"bdf", "ttf"}

(***************************************************************************)
(* Claims.                                                                 *)
(***************************************************************************)
\* C1: round trip - in every written container, reading at each entry's blob
\* offset the number of bytes the format defines for the entry yields the
\* packed bitmap the renderer produced for it.
C1_RoundTrip ==
    Written =>
        \A i \in Entries(file.data) :
            ReadAt(file.data, EntryOffset(file.data, i), EntryLength(file.data, i))
                = glyphs[i + 1].bitmap

\* C2: index ordering - in every written container the index codepoints are
\* strictly increasing.
C2_IndexStrictlyIncreasing ==
    Written =>
        \A i \in Entries(file.data) :
            i + 1 \in Entries(file.data) =>
                EntryCodepoint(file.data, i) < EntryCodepoint(file.data, i + 1)

\* C3: layout contiguity - in every written container the first blob offset
\* is 16 + glyph_count * entry_size, each later offset is the previous one
\* plus the length of the previous glyph's bitmap, offsets never decrease,
\* and the segments tile the bytes after the index up to the end of the file.
C3_LayoutContiguity ==
    Written =>
        LET d == file.data
            n == HdrCount(d)
        IN /\ n = Len(glyphs)
           /\ n > 0 => EntryOffset(d, 0) = 16 + n * EntrySize(d)
           /\ \A i \in Entries(d) :
                 /\ ReadAt(d, EntryOffset(d, i), Len(glyphs[i + 1].bitmap)) = glyphs[i + 1].bitmap
                 /\ i + 1 \in Entries(d) =>
                       /\ EntryOffset(d, i + 1) = EntryOffset(d, i) + Len(glyphs[i + 1].bitmap)
                       /\ EntryOffset(d, i + 1) >= EntryOffset(d, i)
           /\ n > 0 => EntryOffset(d, n - 1) + Len(glyphs[n].bitmap) = Len(d)
           /\ n = 0 => Len(d) = 16

C3_Witness ==
    /\ Written /\ tool = "ttf"
    /\ Len(glyphs) = 2
    /\ Len(glyphs[1].bitmap) = 2
    /\ EntryOffset(file.data, 1) = 38

\* C4: variable-format bitmap length - every glyph create_font_file stores,
\* the blank space glyph included, has width > 0, height > 0 and a packed
\* bitmap of ceil(width*height/8) bytes, width and height being those of its
\* index entry.
C4_VariableBitmapLength ==
    /\ tool = "ttf" =>
          \A i \in 1..Len(glyphs) :
              /\ glyphs[i].width > 0 /\ glyphs[i].height > 0
              /\ Len(glyphs[i].bitmap) = CeilDiv8(glyphs[i].width * glyphs[i].height)
    /\ (Written /\ tool = "ttf") =>
          \A i \in Entries(file.data) :
              /\ EntryWidth(file.data, i) > 0 /\ EntryHeight(file.data, i) > 0
              /\ Len(glyphs[i + 1].bitmap) = EntryLength(file.data, i)

\* C5: fixed-format uniformity - render_glyph_to_fixed_size returns exactly
\* ceil(target_width*target_height/8) bytes for every glyph and canvas, so
\* every blob segment of a fixed-format container has the length
\* ceil(dim_a*dim_b/8) of the header's width and height.
SegmentLength(data, i) ==
    (IF i + 1 \in Entries(data) THEN EntryOffset(data, i + 1) ELSE Len(data))
    - EntryOffset(data, i)

C5_FixedUniformity ==
    /\ (tool = "render" /\ pc = "done") =>
          Len(mem.bitmap) = CeilDiv8(args.target_width * args.target_height)
    /\ (Written /\ tool = "bdf") =>
          \A i \in Entries(file.data) :
              /\ Len(glyphs[i + 1].bitmap) = CeilDiv8(HdrDimA(file.data) * HdrDimB(file.data))
              /\ SegmentLength(file.data, i) = CeilDiv8(HdrDimA(file.data) * HdrDimB(file.data))

C5_Witness ==
    /\ tool = "render" /\ pc = "done"
    /\ args.target_width = 3 /\ args.target_height = 3
    /\ args.glyph.bbx_w = 9 /\ args.glyph.bbx_h = 1 /\ Len(args.glyph.bitmap) = 2
    /\ args.glyph.bbx_x = -1
    /\ Len(mem.bitmap) = 2 /\ mem.bitmap # <<0, 0>>

\* every candidate has gone through parsing, range filtering and rendering
PipelineDone ==
    \/ tool = "bdf" /\ pc # "start"
    \/ tool = "ttf" /\ pc \notin {"start", "load"} /\ cursor = Len(codepoints)

\* C6: empty-result failure - when zero glyphs survive, the run ends in a
\* fatal failure, the destination is neither created nor modified, and no
\* container with glyph_count = 0 is written.
C6_EmptyResultFails ==
    /\ (PipelineDone /\ glyphs = <<>>) => (file = before /\ exit # 0)
    /\ Written => HdrCount(file.data) # 0

\* C7: no partial output - a run that ends in a fatal error leaves the
\* destination as it was before the run.
C7_NoPartialOutput ==
    exit = 1 => file = before

\* C8 (as amended): a candidate that render_glyph reports unavailable, or
\* returns with zero width or height, is skipped without aborting; glyph_count
\* is the number of candidates minus the number of those, and the stored
\* entries are those of a run whose candidate list omits a skipped codepoint.
SkippedResults ==
    {i \in 1..Len(returns) :
        ~returns[i].ret.avail \/ returns[i].ret.width <= 0 \/ returns[i].ret.height <= 0}
UnavailableResults == {i \in 1..Len(returns) : ~returns[i].ret.avail}
Without(seq, i) == SubSeq(seq, 1, i - 1) \o SubSeq(seq, i + 1, Len(seq))
NoGlyphs == [glyphs |-> <<>>, max_width |-> 0, max_height |-> 0]

AllZero(bytes) == \A k \in 1..Len(bytes) : bytes[k] = 0

C9_SpaceException ==
    tool = "ttf" =>
        /\ \A i \in 1..Len(returns) :
              returns[i].empty_box =>
                  IF returns[i].cp = 32
                  THEN /\ returns[i].ret.avail
                       /\ returns[i].ret.width = args.size \div 3
                       /\ returns[i].ret.height = args.size
                       /\ AllZero(returns[i].ret.bitmap)
                  ELSE ~returns[i].ret.avail
        /\ (Written /\ \E i \in 1..Len(returns) : returns[i].cp = 32 /\ returns[i].empty_box) =>
              \E k \in Entries(file.data) :
                  /\ EntryCodepoint(file.data, k) = 32
                  /\ EntryWidth(file.data, k) = args.size \div 3
                  /\ EntryHeight(file.data, k) = args.size
                  /\ Len(ReadAt(file.data, EntryOffset(file.data, k), EntryLength(file.data, k)))
                        = EntryLength(file.data, k)
                  /\ AllZero(ReadAt(file.data, EntryOffset(file.data, k), EntryLength(file.data, k)))

\* C10: fixed-format codepoint range - the index holds exactly the parsed
\* glyphs with 1 <= encoding <= 65535, the others are dropped without
\* aborting, and every stored codepoint is written unchanged.
Count(seq, P(_)) == Cardinality({i \in 1..Len(seq) : P(seq[i])})

C10_CodepointRange ==
    /\ (tool = "bdf" /\ pc = "rendered"
        /\ FntHeaderFits(mem.target_width, mem.target_height, Len(glyphs))) =>
            ENABLED (FntPack /\ pc' = "packed")
    /\ (Written /\ tool = "bdf") =>
          /\ \A k \in Entries(file.data) :
                /\ EntryCodepoint(file.data, k) >= 1
                /\ EntryCodepoint(file.data, k) <= 65535
                /\ EntryCodepoint(file.data, k) = glyphs[k + 1].codepoint
          /\ \A e \in {args.glyphs[j].encoding : j \in 1..Len(args.glyphs)} :
                Cardinality({k \in Entries(file.data) : EntryCodepoint(file.data, k) = e})
                  = IF 1 <= e /\ e <= 65535
                    THEN Count(args.glyphs, LAMBDA g : g.encoding = e)
                    ELSE 0
          /\ HdrCount(file.data)
                = Count(args.glyphs, LAMBDA g : 1 <= g.encoding /\ g.encoding <= 65535)

C10_Witness ==
    /\ Written /\ tool = "bdf"
    /\ \E j \in 1..Len(args.glyphs) : args.glyphs[j].encoding = 65536
    /\ HdrCount(file.data) = 1
    /\ EntryCodepoint(file.data, 0) = 65535

\* C11: count consistency - in every written container the header's
\* glyph_count equals the number of index entries written and the number of
\* bitmap segments appended to the blob.
BlobStart(data) == 16 + HdrCount(data) * EntrySize(data)
\* the index entries in the file once the index has been written: the bytes
\* between the header and the blob, in entries
IndexEntriesWritten ==
    LET blob_len == IF pc = "done"
                    THEN Len(Concat([i \in 1..Len(glyphs) |-> glyphs[i].bitmap]))
                    ELSE 0
    IN (Len(file.data) - 16 - blob_len) \div EntrySize(file.data)
\* the blob is the concatenation of one segment per rendered glyph
SegmentsAppended == Len(glyphs)

C11_CountConsistency ==
    (tool \in {"bdf", "ttf"} /\ pc \in {"blob", "done"} /\ exit # 1) =>
        /\ HdrCount(file.data) = IndexEntriesWritten
        /\ (Len(file.data) - 16 - (IF pc = "done"
                                   THEN Len(Concat([i \in 1..Len(glyphs) |-> glyphs[i].bitmap]))
                                   ELSE 0)) % EntrySize(file.data) = 0
        /\ HdrCount(file.data) = SegmentsAppended
        /\ pc = "done" =>
              SubSeq(file.data, BlobStart(file.data) + 1, Len(file.data))
                  = Concat([i \in 1..Len(glyphs) |-> glyphs[i].bitmap])

C11_Witness ==
    /\ Written
    /\ HdrCount(file.data) = 2
    /\ IndexEntriesWritten = 2
    /\ Len(file.data) > BlobStart(file.data)

\* C12: variable-format header dimensions - in every container written by
\* create_font_file, dim_a is the maximum width and dim_b the maximum height
\* over the stored index entries, so every entry has
\* 1 <= width <= dim_a <= 255 and 1 <= height <= dim_b <= 255.
IsMaxOver(v, S) == v \in S /\ \A x \in S : x <= v

C12_VariableHeaderDims ==
    (Written /\ tool = "ttf") =>
        LET d == file.data
        IN /\ IsMaxOver(HdrDimA(d), {EntryWidth(d, i) : i \in Entries(d)})
           /\ IsMaxOver(HdrDimB(d), {EntryHeight(d, i) : i \in Entries(d)})
           /\ HdrDimA(d) = mem.max_width /\ HdrDimB(d) = mem.max_height
           /\ \A i \in Entries(d) :
                 /\ EntryWidth(d, i) = glyphs[i + 1].width
                 /\ EntryHeight(d, i) = glyphs[i + 1].height
                 /\ 1 <= EntryWidth(d, i) /\ EntryWidth(d, i) <= HdrDimA(d)
                 /\ 1 <= EntryHeight(d, i) /\ EntryHeight(d, i) <= HdrDimB(d)
           /\ HdrDimA(d) <= 255 /\ HdrDimB(d) <= 255

C12_Witness ==
    /\ Written /\ tool = "ttf"
    /\ HdrCount(file.data) = 2
    /\ EntryWidth(file.data, 0) = 2 /\ EntryWidth(file.data, 1) = 1
    /\ EntryHeight(file.data, 0) = 1 /\ EntryHeight(file.data, 1) = 2
    /\ HdrDimA(file.data) = 2 /\ HdrDimB(file.data) = 2

(***************************************************************************)
(* The two packers side by side: the tail of render_glyph_to_fixed_size    *)
(* (bdf2fnt.py lines 176-188) and the tail of render_glyph (ttf2fnt.py     *)
(* lines 120-139), each applied to the same binary raster.                 *)
(***************************************************************************)
\* <<columns, rows>> of the rasters handed to the packers
RasterDims == {<<0, 0>>, <<3, 0>>, <<1, 1>>, <<3, 2>>, <<2, 4>>, <<8, 1>>, <<3, 3>>, <<5, 2>>}
Rasters == UNION {[1..d[2] -> [1..d[1] -> {0, 1}]] : d \in RasterDims}

InitPack ==
    /\ tool = "pack"
    /\ args \in [raster : Rasters]
    /\ pc = "start"
    /\ codepoints = <<>>
    /\ cursor = 0
    /\ returns = <<>>
    /\ glyphs = <<>>
    /\ mem = [fixed |-> <<>>, variable |-> <<>>]
    /\ file = NoFile
    /\ before = file
    /\ exit = -1

\* bdf2fnt.py lines 176-188 on the raster as canvas
PackFixedCall ==
    /\ tool = "pack" /\ pc = "start"
    /\ mem' = [mem EXCEPT !.fixed = PackCanvasBits(FlattenCanvas(args.raster))]
    /\ pc' = "fixed"
    /\ UNCHANGED <<tool, args, codepoints, cursor, returns, glyphs, file, before, exit>>

\* ttf2fnt.py lines 120-139 on the raster as glyph_binary
PackVariableCall ==
    /\ tool = "pack" /\ pc = "fixed"
    /\ mem' = [mem EXCEPT !.variable = PackPixels(Concat(args.raster), <<>>, 0, 0)]
    /\ pc' = "done"
    /\ UNCHANGED <<tool, args, codepoints, cursor, returns, glyphs, file, before, exit>>

NextPack == PackFixedCall \/ PackVariableCall

SpecPack == InitPack /\ [][NextPack]_vars

\* bit (7 - i mod 8) of byte i div 8, for the 0-based pixel index i
PackedBit(bytes, i) == (bytes[(i \div 8) + 1] \div Pow2(7 - (i % 8))) % 2

\* C13: shared packing rule - for every row-major binary raster of n pixels
\* both packers produce the same byte sequence of length ceil(n/8), pixel i
\* sits at bit 7 - (i mod 8) of byte i div 8, rows follow each other without
\* padding, and the unused low bits of the last byte are zero.
C13_SharedPacking ==
    (tool = "pack" /\ pc = "done") =>
        LET rows == Len(args.raster)
            cols == IF rows = 0 THEN 0 ELSE Len(args.raster[1])
            n == rows * cols
        IN /\ mem.fixed = mem.variable
           /\ Len(mem.fixed) = CeilDiv8(n)
           /\ \A r \in 0..(rows - 1) : \A c \in 0..(cols - 1) :
                 PackedBit(mem.fixed, r * cols + c) = args.raster[r + 1][c + 1]
           /\ \A i \in n..(8 * Len(mem.fixed) - 1) : PackedBit(mem.fixed, i) = 0
           /\ \A k \in 1..Len(mem.fixed) : mem.fixed[k] \in 0..255

C13_Witness ==
    /\ tool = "pack" /\ pc = "done"
    /\ Len(args.raster) = 2 /\ Len(args.raster[1]) = 5
    /\ args.raster[2] = <<0, 0, 1, 0, 1>>
    /\ mem.variable = <<1, 64>>
    /\ mem.fixed = <<1, 64>>

(***************************************************************************)
(* create_fnt_file as a function of its input: what a run on the arguments *)
(* a leaves in the destination (lines 196-257), or that it raises.         *)
(***************************************************************************)
FntRunResult(a) ==
    LET rendered == RenderAll(a)
        target_width == TargetWidth(a)
        target_height == TargetHeight(a)
        bytes_per_glyph == BytesPerGlyph(target_width, target_height)
    IN IF FntHeaderFits(target_width, target_height, Len(rendered))
          /\ FntIndexFits(rendered, bytes_per_glyph)
       THEN [ok |-> TRUE,
             data |-> FntHeader(target_width, target_height, Len(rendered))
                      \o FntIndexData(rendered, bytes_per_glyph)
                      \o FntBitmapData(rendered)]
       ELSE [ok |-> FALSE, data |-> <<>>]

\* the orders in which the glyph blocks of a source can be written
BlockOrders(seq) ==
    {[i \in 1..Len(seq) |-> seq[p[i]]] :
        p \in {f \in [1..Len(seq) -> 1..Len(seq)] :
                 \A i, j \in 1..Len(seq) : f[i] = f[j] => i = j}}

DistinctEncodings(gs) ==
    \A i, j \in 1..Len(gs) : gs[i].encoding = gs[j].encoding => i = j

MaxBlocks == 3      \* glyph blocks in a source handed to parse_bdf

Line(key, fields) == [key |-> key, fields |-> fields]

\* value of a character as a digit; 99 for a character that is no digit
DigitOf(c) ==
    CASE c = "0" -> 0 [] c = "1" -> 1 [] c = "2" -> 2 [] c = "3" -> 3 [] c = "4" -> 4
      [] c = "5" -> 5 [] c = "6" -> 6 [] c = "7" -> 7 [] c = "8" -> 8 [] c = "9" -> 9
      [] c = "A" -> 10 [] c = "B" -> 11 [] c = "C" -> 12 [] c = "D" -> 13
      [] c = "E" -> 14 [] c = "F" -> 15 [] OTHER -> 99

RECURSIVE DigitsValue(_, _, _)
DigitsValue(digits, base, acc) ==
    IF digits = <<>> THEN acc
    ELSE DigitsValue(Tail(digits), base, acc * base + DigitOf(Head(digits)))

\* int(text, base) over words made of digits, "-" and other characters:
\* ok = FALSE is ValueError
ParseInt(text, base) ==
    LET negative == text # <<>> /\ Head(text) = "-"
        digits == IF negative THEN Tail(text) ELSE text
    IN IF digits = <<>> \/ \E k \in 1..Len(digits) : DigitOf(digits[k]) >= base
       THEN [ok |-> FALSE, val |-> 0]
       ELSE [ok |-> TRUE,
             val |-> IF negative THEN 0 - DigitsValue(digits, base, 0)
                     ELSE DigitsValue(digits, base, 0)]

\* line.startswith(key + ' ') on a stripped line
StartsWith(line, key) == line.key = key /\ line.fields # <<>>

\* int(line.split()[n]) for n >= 1: ok = FALSE is IndexError or ValueError
IntField(line, n) ==
    IF n > Len(line.fields) THEN [ok |-> FALSE, val |-> 0]
    ELSE ParseInt(line.fields[n], 10)

\* int(hex_str, 16) of a whole stripped line: a keyword or a second word
\* brings characters that are no hexadecimal digits
HexRow(line) ==
    IF line.key = "" /\ Len(line.fields) = 1 THEN ParseInt(line.fields[1], 16)
    ELSE [ok |-> FALSE, val |-> 0]

EmptyProperties ==
    [fbb_width |-> <<>>, fbb_height |-> <<>>, fbb_x |-> <<>>, fbb_y |-> <<>>,
     ascent |-> <<>>, descent |-> <<>>, char_count |-> <<>>]

\* lines 56-67: the effect of a font-level line on properties
PropertyLine(properties, line) ==
    IF StartsWith(line, "FONTBOUNDINGBOX")
    THEN LET f1 == IntField(line, 1)
             f2 == IntField(line, 2)
             f3 == IntField(line, 3)
             f4 == IntField(line, 4)
         IN [ok |-> f1.ok /\ f2.ok /\ f3.ok /\ f4.ok,
             properties |-> [properties EXCEPT !.fbb_width = <<f1.val>>,
                                               !.fbb_height = <<f2.val>>,
                                               !.fbb_x = <<f3.val>>,
                                               !.fbb_y = <<f4.val>>]]
    ELSE IF StartsWith(line, "FONT_ASCENT")
    THEN [ok |-> IntField(line, 1).ok,
          properties |-> [properties EXCEPT !.ascent = <<IntField(line, 1).val>>]]
    ELSE IF StartsWith(line, "FONT_DESCENT")
    THEN [ok |-> IntField(line, 1).ok,
          properties |-> [properties EXCEPT !.descent = <<IntField(line, 1).val>>]]
    ELSE IF StartsWith(line, "CHARS")
    THEN [ok |-> IntField(line, 1).ok,
          properties |-> [properties EXCEPT !.char_count = <<IntField(line, 1).val>>]]
    ELSE [ok |-> TRUE, properties |-> properties]

\* lines 71-74: the locals of a glyph block
NewBlock(properties) ==
    [properties |-> properties, encoding |-> <<>>, dwidth |-> 0,
     bbx_w |-> 0, bbx_h |-> 0, bbx_x |-> 0, bbx_y |-> 0, bitmap_rows |-> <<>>]

\* lines 80-89: the effect of a line of a glyph block on the locals
GlyphLine(locals, line) ==
    IF StartsWith(line, "ENCODING")
    THEN [ok |-> IntField(line, 1).ok,
          locals |-> [locals EXCEPT !.encoding = <<IntField(line, 1).val>>]]
    ELSE IF StartsWith(line, "DWIDTH")
    THEN [ok |-> IntField(line, 1).ok,
          locals |-> [locals EXCEPT !.dwidth = IntField(line, 1).val]]
    ELSE IF StartsWith(line, "BBX")
    THEN LET f1 == IntField(line, 1)
             f2 == IntField(line, 2)
             f3 == IntField(line, 3)
             f4 == IntField(line, 4)
         IN [ok |-> f1.ok /\ f2.ok /\ f3.ok /\ f4.ok,
             locals |-> [locals EXCEPT !.bbx_w = f1.val, !.bbx_h = f2.val,
                                       !.bbx_x = f3.val, !.bbx_y = f4.val]]
    ELSE [ok |-> TRUE, locals |-> locals]

\* a retention test that also drops encoding 0
RetainedPositive(encoding) == encoding # <<>> /\ encoding[1] > 0

\* line 102: encoding is not None and encoding >= 0
Retained(encoding) == encoding # <<>> /\ encoding[1] >= 0

\* lines 104-112
GlyphRecord(locals) ==
    [encoding |-> locals.encoding[1], dwidth |-> locals.dwidth,
     bbx_w |-> locals.bbx_w, bbx_h |-> locals.bbx_h,
     bbx_x |-> locals.bbx_x, bbx_y |-> locals.bbx_y, bitmap |-> locals.bitmap_rows]

BITMAP == Line("BITMAP", <<>>)
ENDCHAR == Line("ENDCHAR", <<>>)

(***************************************************************************)
(* Sources handed to parse_bdf: a preamble of font-level lines, up to      *)
(* MaxBlocks glyph blocks, and the ENDFONT line.                           *)
(***************************************************************************)
FbbLines ==
    {<<>>,
     <<Line("FONTBOUNDINGBOX", <<<<"3">>, <<"3">>, <<"0">>, <<"-", "1">>>>)>>,
     <<Line("FONTBOUNDINGBOX", <<<<"3">>, <<"3">>>>)>>,
     <<Line("FONTBOUNDINGBOX", <<<<"3">>, <<"Z">>, <<"0">>, <<"0">>>>)>>}
AscentLines ==
    {<<>>,
     <<Line("FONT_ASCENT", <<<<"2">>>>)>>,
     <<Line("FONT_ASCENT", <<<<"Z">>>>)>>,
     <<Line("FONT_ASCENT", <<>>)>>}
DescentLines ==
    {<<>>,
     <<Line("FONT_DESCENT", <<<<"1">>>>)>>,
     <<Line("FONT_DESCENT", <<<<"1", "Z">>>>)>>}
CharsLines ==
    {<<>>,
     <<Line("CHARS", <<<<"2">>>>)>>,
     <<Line("CHARS", <<<<"Z">>>>)>>}

STARTFONT == Line("STARTFONT", <<<<"2", ".", "1">>>>)
ENDFONT == Line("ENDFONT", <<>>)

Preambles ==
    {<<STARTFONT>> \o f \o a \o d \o c :
        f \in FbbLines, a \in AscentLines, d \in DescentLines, c \in CharsLines}
StandardPreamble ==
    <<STARTFONT,
      Line("FONTBOUNDINGBOX", <<<<"3">>, <<"3">>, <<"0">>, <<"-", "1">>>>),
      Line("FONT_ASCENT", <<<<"2">>>>),
      Line("FONT_DESCENT", <<<<"1">>>>),
      Line("CHARS", <<<<"2">>>>)>>

STARTCHAR == Line("STARTCHAR", <<<<"A">>>>)
DWIDTH3 == Line("DWIDTH", <<<<"3">>, <<"0">>>>)
Row(text) == Line("", <<text>>)

\* well-formed, encoding 65, two rows
BlockPlain ==
    <<STARTCHAR, Line("ENCODING", <<<<"6", "5">>>>), DWIDTH3,
      Line("BBX", <<<<"2">>, <<"2">>, <<"0">>, <<"0">>>>),
      BITMAP, Row(<<"C", "0">>), Row(<<"4", "0">>), ENDCHAR>>
\* well-formed, encoding 0, no rows
BlockZero ==
    <<STARTCHAR, Line("ENCODING", <<<<"0">>>>), DWIDTH3,
      Line("BBX", <<<<"0">>, <<"0">>, <<"0">>, <<"0">>>>),
      BITMAP, ENDCHAR>>
\* well-formed, encoding -1
BlockNegative ==
    <<STARTCHAR, Line("ENCODING", <<<<"-", "1">>>>), DWIDTH3,
      Line("BBX", <<<<"1">>, <<"2">>, <<"1">>, <<"-", "1">>>>),
      BITMAP, Row(<<"8", "0">>), Row(<<"8", "0">>), ENDCHAR>>
\* well-formed, no ENCODING line
BlockNoEncoding ==
    <<STARTCHAR, DWIDTH3,
      Line("BBX", <<<<"9">>, <<"1">>, <<"0">>, <<"0">>>>),
      BITMAP, Row(<<"F", "F", "8", "0">>), ENDCHAR>>
\* ENCODING with a non-numeric field
BlockBadEncoding ==
    <<STARTCHAR, Line("ENCODING", <<<<"Z">>>>), DWIDTH3,
      Line("BBX", <<<<"2">>, <<"2">>, <<"0">>, <<"0">>>>),
      BITMAP, Row(<<"C", "0">>), ENDCHAR>>
\* BBX with two fields missing
BlockShortBBX ==
    <<STARTCHAR, Line("ENCODING", <<<<"6", "6">>>>), DWIDTH3,
      Line("BBX", <<<<"2">>, <<"2">>>>),
      BITMAP, Row(<<"C", "0">>), ENDCHAR>>
\* a bitmap row that is not hexadecimal
BlockBadRow ==
    <<STARTCHAR, Line("ENCODING", <<<<"6", "6">>>>), DWIDTH3,
      Line("BBX", <<<<"2">>, <<"2">>, <<"0">>, <<"0">>>>),
      BITMAP, Row(<<"C", "0">>), Row(<<"Z", "Z">>), ENDCHAR>>
\* no BITMAP section
BlockNoBitmap ==
    <<STARTCHAR, Line("ENCODING", <<<<"6", "6">>>>), DWIDTH3,
      Line("BBX", <<<<"0">>, <<"0">>, <<"0">>, <<"0">>>>), ENDCHAR>>
\* cut off inside the bitmap, after a blank line and one row
BlockCutOff ==
    <<STARTCHAR, Line("ENCODING", <<<<"6", "7">>>>), DWIDTH3,
      Line("BBX", <<<<"2">>, <<"1">>, <<"0">>, <<"0">>>>),
      BITMAP, Line("", <<>>), Row(<<"C", "0">>)>>

Blocks ==
    {BlockPlain, BlockZero, BlockNegative, BlockNoEncoding, BlockBadEncoding,
     BlockShortBBX, BlockBadRow, BlockNoBitmap, BlockCutOff}

Sources ==
    {p \o Concat(bs) \o <<ENDFONT>> : p \in Preambles, bs \in SeqsUpTo({BlockPlain}, 1)}
    \cup {StandardPreamble \o Concat(bs) \o <<ENDFONT>> : bs \in SeqsUpTo(Blocks, MaxBlocks)}
    \cup {StandardPreamble \o Concat(bs) : bs \in SeqsUpTo(Blocks, 1)}

InitParse ==
    /\ tool = "parse"
    /\ args \in [lines : Sources]
    /\ pc = "outer"
    /\ codepoints = <<>>
    /\ cursor = 0
    /\ returns = <<>>
    /\ glyphs = <<>>
    /\ mem = NewBlock(EmptyProperties)
    /\ file = NoFile
    /\ before = file
    /\ exit = -1

\* lines 52-67 and 114: a font-level line that does not open a glyph block
ParseProperty ==
    /\ tool = "parse" /\ pc = "outer" /\ cursor < Len(args.lines)
    /\ LET line == args.lines[cursor + 1]
           r == PropertyLine(mem.properties, line)
       IN /\ ~StartsWith(line, "STARTCHAR")
          /\ IF r.ok
             THEN /\ mem' = [mem EXCEPT !.properties = r.properties]
                  /\ cursor' = cursor + 1
                  /\ pc' = pc /\ exit' = exit
             ELSE /\ Fail("raised")
                  /\ UNCHANGED <<mem, cursor>>
    /\ UNCHANGED <<tool, args, codepoints, returns, glyphs, file, before>>

\* lines 70-76: STARTCHAR opens a glyph block
ParseStartChar ==
    /\ tool = "parse" /\ pc = "outer" /\ cursor < Len(args.lines)
    /\ StartsWith(args.lines[cursor + 1], "STARTCHAR")
    /\ mem' = NewBlock(mem.properties)
    /\ cursor' = cursor + 1
    /\ pc' = "inner"
    /\ UNCHANGED <<tool, args, codepoints, returns, glyphs, file, before, exit>>

\* lines 77-89 and 100: a line of the block before its BITMAP line
ParseGlyphLine ==
    /\ tool = "parse" /\ pc = "inner" /\ cursor < Len(args.lines)
    /\ LET line == args.lines[cursor + 1]
           r == GlyphLine(mem, line)
       IN /\ line # BITMAP
          /\ IF r.ok
             THEN /\ mem' = r.locals
                  /\ cursor' = cursor + 1
                  /\ pc' = pc /\ exit' = exit
             ELSE /\ Fail("raised")
                  /\ UNCHANGED <<mem, cursor>>
    /\ UNCHANGED <<tool, args, codepoints, returns, glyphs, file, before>>

\* lines 90-91: the BITMAP line
ParseBitmapStart ==
    /\ tool = "parse" /\ pc = "inner" /\ cursor < Len(args.lines)
    /\ args.lines[cursor + 1] = BITMAP
    /\ cursor' = cursor + 1
    /\ pc' = "bitmap"
    /\ UNCHANGED <<tool, args, codepoints, returns, glyphs, mem, file, before, exit>>

\* lines 92-97: a line of the bitmap section
ParseBitmapRow ==
    /\ tool = "parse" /\ pc = "bitmap" /\ cursor < Len(args.lines)
    /\ LET line == args.lines[cursor + 1]
       IN /\ line # ENDCHAR
          /\ IF line = Line("", <<>>)
             THEN /\ UNCHANGED mem
                  /\ cursor' = cursor + 1
                  /\ pc' = pc /\ exit' = exit
             ELSE IF HexRow(line).ok
             THEN /\ mem' = [mem EXCEPT !.bitmap_rows = Append(@, HexRow(line).val)]
                  /\ cursor' = cursor + 1
                  /\ pc' = pc /\ exit' = exit
             ELSE /\ Fail("raised")
                  /\ UNCHANGED <<mem, cursor>>
    /\ UNCHANGED <<tool, args, codepoints, returns, glyphs, file, before>>

\* lines 98-114: the inner pass is over (ENDCHAR after BITMAP, or the end of
\* the lines); the glyph is kept or dropped and the outer loop steps on
ParseEndGlyph ==
    /\ tool = "parse"
    /\ IF cursor >= Len(args.lines) THEN pc \in {"bitmap", "inner"}
       ELSE pc = "bitmap" /\ args.lines[cursor + 1] = ENDCHAR
    /\ glyphs' = IF Retained(mem.encoding) THEN Append(glyphs, GlyphRecord(mem)) ELSE glyphs
    /\ cursor' = cursor + 1
    /\ pc' = "outer"
    /\ UNCHANGED <<tool, args, codepoints, returns, mem, file, before, exit>>

\* lines 52 and 116: the outer loop is over
ParseReturn ==
    /\ tool = "parse" /\ pc = "outer" /\ cursor >= Len(args.lines)
    /\ pc' = "returned"
    /\ UNCHANGED <<tool, args, codepoints, cursor, returns, glyphs, mem, file, before, exit>>

NextParse ==
    \/ ParseProperty \/ ParseStartChar \/ ParseGlyphLine \/ ParseBitmapStart
    \/ ParseBitmapRow \/ ParseEndGlyph \/ ParseReturn

SpecParse == InitParse /\ [][NextParse]_vars

\* C15: parse robustness - parse_bdf never aborts on malformed content: a
\* font-level property line with a missing or non-numeric field is ignored
\* and a glyph block with a malformed field or a non-hexadecimal bitmap row
\* is skipped, so every parse runs to its return.
C15_ParseRobustness ==
    tool = "parse" => (pc # "raised" /\ exit # 1)

(***************************************************************************)
(* A well-formed source, read as a whole: its glyph blocks and the record  *)
(* each one describes.                                                     *)
(***************************************************************************)
Lowest(S) == CHOOSE x \in S : \A y \in S : x <= y
BlockStarts(lines) == {s \in 1..Len(lines) : lines[s].key = "STARTCHAR"}
\* the first ENDCHAR line after s, 0 when there is none
BlockEnd(lines, s) ==
    LET ends == {e \in (s + 1)..Len(lines) : lines[e] = ENDCHAR}
    IN IF ends = {} THEN 0 ELSE Lowest(ends)
\* the first BITMAP line of the block, 0 when there is none
BlockBitmap(lines, s) ==
    LET starts == {b \in (s + 1)..(BlockEnd(lines, s) - 1) : lines[b] = BITMAP}
    IN IF starts = {} THEN 0 ELSE Lowest(starts)
\* the lines of the block with the given keyword, before its bitmap
KeyLines(lines, s, key) ==
    {i \in (s + 1)..(BlockBitmap(lines, s) - 1) : lines[i].key = key}
HasIntFields(line, n) ==
    Len(line.fields) >= n /\ \A k \in 1..n : ParseInt(line.fields[k], 10).ok

WellFormedBlock(lines, s) ==
    /\ lines[s].fields # <<>>
    /\ BlockEnd(lines, s) # 0 /\ BlockBitmap(lines, s) # 0
    /\ \A i \in (s + 1)..BlockEnd(lines, s) : lines[i].key # "STARTCHAR"
    /\ Cardinality(KeyLines(lines, s, "ENCODING")) <= 1
    /\ Cardinality(KeyLines(lines, s, "DWIDTH")) = 1
    /\ Cardinality(KeyLines(lines, s, "BBX")) = 1
    /\ \A i \in KeyLines(lines, s, "ENCODING") \cup KeyLines(lines, s, "DWIDTH") :
          HasIntFields(lines[i], 1)
    /\ \A i \in KeyLines(lines, s, "BBX") : HasIntFields(lines[i], 4)
    /\ \A i \in (BlockBitmap(lines, s) + 1)..(BlockEnd(lines, s) - 1) :
          /\ lines[i].key = "" /\ Len(lines[i].fields) = 1
          /\ ParseInt(lines[i].fields[1], 16).ok

WellFormed(lines) ==
    /\ \A s \in BlockStarts(lines) : WellFormedBlock(lines, s)
    /\ \A i \in 1..Len(lines) :
          (\A s \in BlockStarts(lines) : i < s \/ i > BlockEnd(lines, s)) =>
              /\ lines[i].key = "FONTBOUNDINGBOX" => HasIntFields(lines[i], 4)
              /\ lines[i].key \in {"FONT_ASCENT", "FONT_DESCENT", "CHARS"} =>
                    HasIntFields(lines[i], 1)
              /\ lines[i] \notin {BITMAP, ENDCHAR}

FieldOf(lines, s, key, n) ==
    ParseInt(lines[Lowest(KeyLines(lines, s, key))].fields[n], 10).val

ExpectedRecord(lines, s) ==
    [encoding |-> FieldOf(lines, s, "ENCODING", 1),
     dwidth |-> FieldOf(lines, s, "DWIDTH", 1),
     bbx_w |-> FieldOf(lines, s, "BBX", 1), bbx_h |-> FieldOf(lines, s, "BBX", 2),
     bbx_x |-> FieldOf(lines, s, "BBX", 3), bbx_y |-> FieldOf(lines, s, "BBX", 4),
     bitmap |-> [k \in 1..(BlockEnd(lines, s) - BlockBitmap(lines, s) - 1) |->
                   ParseInt(lines[BlockBitmap(lines, s) + k].fields[1], 16).val]]

\* the blocks with an ENCODING that is >= 0, in source order
KeptBlocks(lines) ==
    SortedSeq({s \in BlockStarts(lines) :
                  /\ KeyLines(lines, s, "ENCODING") # {}
                  /\ FieldOf(lines, s, "ENCODING", 1) >= 0})

\* C16: glyph retention - for a well-formed BDF source parse_bdf returns, in
\* source order, exactly one record for each glyph block whose ENCODING is
\* present and >= 0, carrying the block's encoding, device width, bounding box
\* and bitmap rows, and no record for a block whose ENCODING is absent or
\* negative.
C16_GlyphRetention ==
    (tool = "parse" /\ WellFormed(args.lines)) =>
        /\ pc # "raised"
        /\ pc = "returned" =>
              glyphs = [k \in 1..Len(KeptBlocks(args.lines)) |->
                          ExpectedRecord(args.lines, KeptBlocks(args.lines)[k])]

C16_Witness ==
    /\ tool = "parse" /\ pc = "returned" /\ WellFormed(args.lines)
    /\ Cardinality(BlockStarts(args.lines)) = 3
    /\ Len(glyphs) = 2
    /\ glyphs[1].encoding = 0 /\ glyphs[1].bitmap = <<>>
    /\ glyphs[2].encoding = 65 /\ glyphs[2].bitmap = <<192, 64>>
    /\ glyphs[2].bbx_w = 2 /\ glyphs[2].dwidth = 3

(***************************************************************************)
(* bdf2fnt.py --verify: main calls verify_glyph on the parsed source.      *)
(***************************************************************************)
\* line 317: args.width or 9 (None and 0 both give 9)
Or9(opt) == IF opt = <<>> \/ opt[1] = 0 THEN 9 ELSE opt[1]

\* lines 279-280: the first parsed glyph with the codepoint, 0 when none
FirstWithEncoding(gs, codepoint) ==
    LET found == {i \in 1..Len(gs) : gs[i].encoding = codepoint}
    IN IF found = {} THEN 0 ELSE CHOOSE i \in found : \A j \in found : i <= j

\* lines 289-299: the cell printed for canvas position (y, x), 1 for a block
ShownBit(bitmap, target_width, y, x) ==
    LET bit_idx == y * target_width + x
        byte_idx == bit_idx \div 8
        bit_pos == 7 - (bit_idx % 8)
    IN (bitmap[byte_idx + 1] \div Pow2(bit_pos)) % 2

\* verify_glyph(bdf_path, codepoint, target_width, target_height), lines 271-302
verify_glyph(properties, gs, codepoint, target_width, target_height) ==
    LET font_ascent == Get(properties.ascent, 9)
        font_descent == Get(properties.descent, 0)
        i == FirstWithEncoding(gs, codepoint)
    IN IF i = 0
       THEN [found |-> FALSE, target_width |-> target_width,
             target_height |-> target_height, bitmap |-> <<>>, shown |-> <<>>]
       ELSE LET bitmap == render_glyph_to_fixed_size(gs[i], target_width, target_height,
                                                     font_ascent, font_descent)
            IN [found |-> TRUE, target_width |-> target_width,
                target_height |-> target_height, bitmap |-> bitmap,
                shown |-> [y \in 1..target_height |-> [x \in 1..target_width |->
                              ShownBit(bitmap, target_width, y - 1, x - 1)]]]

\* --verify values, after int(args.verify, 16)
VerifyCodepoints == Encodings \cup {2}

\* the sources and overrides of the verify runs: those of the conversion
\* runs, the 256-pixel overrides with at most one glyph block
VerifyRuns ==
    {a \in BdfRuns : (a.width = <<256>> \/ a.height = <<256>>) => Len(a.glyphs) <= 1}

InitVerify ==
    /\ tool = "verify"
    /\ args \in {[properties |-> a.properties, glyphs |-> a.glyphs, width |-> a.width,
                  height |-> a.height, codepoint |-> cp] :
                    a \in VerifyRuns, cp \in VerifyCodepoints}
    /\ pc = "start"
    /\ codepoints = <<>>
    /\ cursor = 0
    /\ returns = <<>>
    /\ glyphs = <<>>
    /\ mem = [found |-> FALSE]
    /\ file = NoFile
    /\ before = file
    /\ exit = -1

\* lines 315-317: main in verify mode; nothing is written
VerifyCall ==
    /\ tool = "verify" /\ pc = "start"
    /\ mem' = verify_glyph(args.properties, args.glyphs, args.codepoint,
                           Or9(args.width), Or9(args.height))
    /\ pc' = "done"
    /\ exit' = 0
    /\ UNCHANGED <<tool, args, codepoints, cursor, returns, glyphs, file, before>>

NextVerify == VerifyCall

SpecVerify == InitVerify /\ [][NextVerify]_vars

\* the run of create_fnt_file on the same source and the same overrides
CreateArgs ==
    [properties |-> args.properties, glyphs |-> args.glyphs,
     width |-> args.width, height |-> args.height]

\* C17: preview equals encoded glyph - for every BDF source, every codepoint
\* in it and the same width/height overrides (none included), verify mode
\* renders the canvas size and the bytes that create_fnt_file stores for the
\* codepoint.
C17_PreviewEqualsEncoded ==
    (tool = "verify" /\ pc = "done" /\ FntRunResult(CreateArgs).ok) =>
        LET d == FntRunResult(CreateArgs).data
        IN \A k \in Entries(d) :
              EntryCodepoint(d, k) = args.codepoint =>
                  /\ mem.found
                  /\ mem.target_width = HdrDimA(d)
                  /\ mem.target_height = HdrDimB(d)
                  /\ \E j \in Entries(d) :
                        /\ EntryCodepoint(d, j) = args.codepoint
                        /\ ReadAt(d, EntryOffset(d, j), EntryLength(d, j)) = mem.bitmap

\* the canvas a bdf run has derived, and the header of its container
CanvasIs(width, height) ==
    /\ mem.target_width = width /\ mem.target_height = height
    /\ Written => (HdrDimA(file.data) = width /\ HdrDimB(file.data) = height)

\* C18 (as amended): canvas derivation - with no overrides the canvas width is
\* the font bounding box width (9 without FONTBOUNDINGBOX) and the height is
\* ascent + descent, where an absent FONT_ASCENT falls back to the font
\* bounding box height (9 without it) and an absent FONT_DESCENT falls back
\* to 0; an override replaces only the dimension it names, and the header's
\* dim_a and dim_b record the resulting width and height.
C18_CanvasDerivation ==
    (tool = "bdf" /\ pc \notin {"start", "raised"}) =>
        LET p == args.properties
            box_height == IF p.fbb_height = <<>> THEN 9 ELSE p.fbb_height[1]
            ascent == IF p.ascent = <<>> THEN box_height ELSE p.ascent[1]
            descent == IF p.descent = <<>> THEN 0 ELSE p.descent[1]
            width == IF args.width # <<>> THEN args.width[1]
                     ELSE IF p.fbb_width = <<>> THEN 9 ELSE p.fbb_width[1]
            height == IF args.height # <<>> THEN args.height[1] ELSE ascent + descent
        IN CanvasIs(width, height)

C18_Witness ==
    /\ Written /\ tool = "bdf"
    /\ args.width = <<>> /\ args.height = <<>>
    /\ args.properties.fbb_height = <<3>> /\ args.properties.fbb_width = <<3>>
    /\ args.properties.ascent = <<2>> /\ args.properties.descent = <<>>
    /\ HdrCount(file.data) = 1
    /\ HdrDimA(file.data) = 3 /\ HdrDimB(file.data) = 2

\* C18 as stated: for a source with a font bounding box, an absent FONT_ASCENT
\* and an absent FONT_DESCENT both fall back to the font bounding box height.
C18_DescentFromBoundingBox ==
    (tool = "bdf" /\ pc \notin {"start", "raised"}
     /\ args.properties.fbb_width # <<>> /\ args.properties.fbb_height # <<>>) =>
        LET p == args.properties
            ascent == IF p.ascent = <<>> THEN p.fbb_height[1] ELSE p.ascent[1]
            descent == IF p.descent = <<>> THEN p.fbb_height[1] ELSE p.descent[1]
            width == IF args.width # <<>> THEN args.width[1] ELSE p.fbb_width[1]
            height == IF args.height # <<>> THEN args.height[1] ELSE ascent + descent
        IN CanvasIs(width, height)

(***************************************************************************)
(* render_glyph_to_fixed_size on small glyph records and on glyphs of a    *)
(* 7+2 font: 5 columns wide, 6 or 7 rows of 0xF8, at (1, 0).               *)
(***************************************************************************)
TallGlyphInputs ==
    {[glyph |-> [encoding |-> 65, dwidth |-> 0, bbx_w |-> 5, bbx_h |-> h, bbx_x |-> 1,
                 bbx_y |-> 0, bitmap |-> [k \in 1..h |-> 248]],
      target_width |-> w, target_height |-> 9, font_ascent |-> 7, font_descent |-> 2] :
        h \in {6, 7}, w \in {6, 9}}

\* the glyph records of RenderInputs on the smallest and the largest canvases
PlaceInputs ==
    [glyph : [encoding : {65}, dwidth : {0}, bbx_w : {0, 2, 9}, bbx_h : 0..2,
              bbx_x : -1..1, bbx_y : -1..1, bitmap : SeqsUpTo(RowValues, MaxRows)],
     target_width : {0, 1, MaxCanvas}, target_height : {0, 1, MaxCanvas},
     font_ascent : {0, MaxCanvas - 1, MaxCanvas}, font_descent : {0}]

InitPlace ==
    /\ tool = "render"
    /\ args \in PlaceInputs \cup TallGlyphInputs
    /\ pc = "start"
    /\ codepoints = <<>>
    /\ cursor = 0
    /\ returns = <<>>
    /\ glyphs = <<>>
    /\ mem = [max_width |-> 0, max_height |-> 0]
    /\ file = NoFile
    /\ before = file
    /\ exit = -1

NextPlace == RenderCall

SpecPlace == InitPlace /\ [][NextPlace]_vars

\* bit (ceil(bbx_w/8)*8 - 1 - j) of a source row
SourceBit(row_val, bbx_w, j) == (row_val \div Pow2(CeilDiv8(bbx_w) * 8 - 1 - j)) % 2

\* canvas pixel (r, c) according to the placement rule
RulePixel(glyph, font_ascent, r, c) ==
    LET top == (font_ascent - 1) - (glyph.bbx_y + glyph.bbx_h - 1)
        left == glyph.bbx_x
        i == r - top
        j == c - left
    IN /\ 0 <= i /\ i < Len(glyph.bitmap)
       /\ 0 <= j /\ j < glyph.bbx_w
       /\ SourceBit(glyph.bitmap[i + 1], glyph.bbx_w, j) = 1

\* the canvas, and the bytes returned for it, are the rule's pixels
PlacedByRule ==
    \A r \in 0..(args.target_height - 1) : \A c \in 0..(args.target_width - 1) :
        /\ mem.canvas[r + 1][c + 1] \in {0, 1}
        /\ mem.canvas[r + 1][c + 1] = 1 <=> RulePixel(args.glyph, args.font_ascent, r, c)
        /\ PackedBit(mem.bitmap, r * args.target_width + c) = mem.canvas[r + 1][c + 1]

\* C19 (as amended): placement rule - for a glyph with bbx_h # 0, with
\* top = (ascent - 1) - (bbx_y + bbx_h - 1) and left = bbx_x, canvas pixel
\* (r, c) is set if and only if source row i = r - top exists, j = c - left
\* satisfies 0 <= j < bbx_w and bit (ceil(bbx_w/8)*8 - 1 - j) of source row i
\* is set; a glyph with bbx_h = ascent and bbx_y = 0 has its last source row
\* on canvas row ascent - 1; with ascent 7, descent 2, a 5x6 glyph at (1, 0)
\* with six all-ones rows sets exactly rows 1..6, columns 1..5.
C19_PlacementRule ==
    (tool = "render" /\ pc = "done" /\ args.glyph.bbx_h # 0) =>
        /\ PlacedByRule
        /\ (args.glyph.bbx_h = args.font_ascent /\ args.glyph.bbx_y = 0
            /\ Len(args.glyph.bitmap) = args.glyph.bbx_h
            /\ args.font_ascent <= args.target_height) =>
              \A c \in 0..(args.target_width - 1) :
                  LET j == c - args.glyph.bbx_x
                  IN mem.canvas[args.font_ascent][c + 1] = 1 <=>
                        /\ 0 <= j /\ j < args.glyph.bbx_w
                        /\ SourceBit(args.glyph.bitmap[Len(args.glyph.bitmap)],
                                     args.glyph.bbx_w, j) = 1
        /\ (args \in TallGlyphInputs /\ args.glyph.bbx_h = 6) =>
              \A r \in 0..8 : \A c \in 0..(args.target_width - 1) :
                  mem.canvas[r + 1][c + 1] = 1 <=> (r \in 1..6 /\ c \in 1..5)

C19_Witness ==
    /\ tool = "render" /\ pc = "done"
    /\ args.font_ascent = 7 /\ args.font_descent = 2
    /\ args.glyph.bbx_w = 5 /\ args.glyph.bbx_h = 6
    /\ args.target_width = 6
    /\ mem.canvas[1] = <<0, 0, 0, 0, 0, 0>>
    /\ mem.canvas[2] = <<0, 1, 1, 1, 1, 1>>
    /\ mem.canvas[7] = <<0, 1, 1, 1, 1, 1>>
    /\ mem.canvas[8] = <<0, 0, 0, 0, 0, 0>>

\* C19 as stated: the placement rule for every glyph, bbx_h = 0 included.
C19_PlacementRuleAnyGlyph ==
    (tool = "render" /\ pc = "done") => PlacedByRule

\* the same glyph on a canvas large enough to hold all of it: the glyph is
\* moved right by dx and down by dy (through bbx_x and the ascent) so that no
\* row or column is negative, and the canvas reaches past its last row and
\* column
GlyphTop(glyph, font_ascent) == (font_ascent - 1) - (glyph.bbx_y + glyph.bbx_h - 1)
ShiftRight(glyph) == Max(0, 0 - glyph.bbx_x)
ShiftDown(glyph, font_ascent) == Max(0, 0 - GlyphTop(glyph, font_ascent))
WholeGlyphCanvas ==
    LET g == args.glyph
        dx == ShiftRight(g)
        dy == ShiftDown(g, args.font_ascent)
    IN PlaceGlyph([g EXCEPT !.bbx_x = @ + dx],
                  Max(args.target_width + dx, g.bbx_x + dx + g.bbx_w),
                  Max(args.target_height + dy,
                      GlyphTop(g, args.font_ascent) + dy + Len(g.bitmap)),
                  args.font_ascent + dy)

EmptyGlyph(glyph) == glyph.bbx_w = 0 \/ glyph.bbx_h = 0 \/ glyph.bitmap = <<>>

\* C20: clipping - for every glyph whose bounding box, offsets or row count
\* place pixels outside the canvas, render_glyph_to_fixed_size raises no
\* error, drops exactly the out-of-canvas pixels and places every in-canvas
\* pixel as on a canvas large enough to hold the whole glyph; a glyph with
\* bbx_w = 0, bbx_h = 0 or no bitmap rows yields an all-zero canvas.
C20_Clipping ==
    /\ tool = "render" => (pc \in {"start", "done"} /\ exit # 1)
    /\ (tool = "render" /\ pc = "done") =>
          LET g == args.glyph
              dx == ShiftRight(g)
              dy == ShiftDown(g, args.font_ascent)
              whole == WholeGlyphCanvas
          IN /\ Len(mem.canvas) = args.target_height
             /\ \A r \in 1..args.target_height : Len(mem.canvas[r]) = args.target_width
             /\ Len(mem.bitmap) = CeilDiv8(args.target_width * args.target_height)
             \* the large canvas holds every source pixel
             /\ ~EmptyGlyph(g) =>
                   \A i \in 0..(Len(g.bitmap) - 1) : \A j \in 0..(g.bbx_w - 1) :
                       whole[GlyphTop(g, args.font_ascent) + dy + i + 1][g.bbx_x + dx + j + 1]
                           = SourceBit(g.bitmap[i + 1], g.bbx_w, j)
             \* the canvas is the window of the large canvas at (dy, dx)
             /\ \A r \in 0..(args.target_height - 1) : \A c \in 0..(args.target_width - 1) :
                   /\ mem.canvas[r + 1][c + 1] = whole[r + dy + 1][c + dx + 1]
                   /\ PackedBit(mem.bitmap, r * args.target_width + c)
                         = whole[r + dy + 1][c + dx + 1]
             /\ EmptyGlyph(g) =>
                   /\ \A r \in 1..args.target_height : \A c \in 1..args.target_width :
                         mem.canvas[r][c] = 0
                   /\ AllZero(mem.bitmap)

C20_Witness ==
    /\ tool = "render" /\ pc = "done"
    /\ args.glyph.bbx_w = 9 /\ args.glyph.bbx_h = 2
    /\ args.glyph.bbx_x = -1 /\ args.glyph.bbx_y = -1
    /\ args.glyph.bitmap = <<65408, 65408>>
    /\ args.target_width = 3 /\ args.target_height = 3 /\ args.font_ascent = 3
    /\ mem.canvas = <<<<0, 0, 0>>, <<0, 0, 0>>, <<1, 1, 1>>>>
    /\ Len(WholeGlyphCanvas) = 4 /\ Len(WholeGlyphCanvas[4]) = 9
    /\ WholeGlyphCanvas[4] = <<1, 1, 1, 1, 1, 1, 1, 1, 1>>

(***************************************************************************)
(* Glyph blocks as the text delimits them: from a STARTCHAR line to the    *)
(* first ENDCHAR line after it, with or without a BITMAP section.          *)
(***************************************************************************)
\* the lines with the given keyword between STARTCHAR at s and its ENDCHAR
DelimitedKeyLines(lines, s, key) ==
    {i \in (s + 1)..(BlockEnd(lines, s) - 1) : lines[i].key = key}
\* the blocks whose own ENCODING line carries a value >= 0
DelimitedKept(lines) ==
    {s \in BlockStarts(lines) :
        \E i \in DelimitedKeyLines(lines, s, "ENCODING") :
            /\ HasIntFields(lines[i], 1)
            /\ ParseInt(lines[i].fields[1], 10).val >= 0}
\* the cursor is inside a block that some STARTCHAR opened and no ENDCHAR
\* has closed yet
InsideOpenBlock ==
    \E s \in BlockStarts(args.lines) :
        /\ s <= cursor
        /\ \A e \in (s + 1)..cursor : args.lines[e] # ENDCHAR

\* C21: glyph-block delimiting - the inner pass that a STARTCHAR line starts
\* ends at that block's ENDCHAR line, also for a block with no BITMAP
\* section: while the pass runs the scan has not gone past the ENDCHAR of its
\* block, and when every block of the source is closed by an ENDCHAR each
\* block with an ENCODING >= 0 of its own is returned as a glyph of its own.
C21_BlockDelimiting ==
    tool = "parse" =>
        /\ pc \in {"inner", "bitmap"} => InsideOpenBlock
        /\ (/\ pc = "returned"
            /\ \A s \in BlockStarts(args.lines) : BlockEnd(args.lines, s) # 0) =>
               Len(glyphs) = Cardinality(DelimitedKept(args.lines))

(***************************************************************************)
(* The two previews side by side: the display loop of verify_glyph         *)
(* (bdf2fnt.py lines 289-299) and the one of preview_glyph (ttf2fnt.py     *)
(* lines 252-263), each reading the bytes its own tool packed from the     *)
(* same binary raster.                                                     *)
(***************************************************************************)
\* bdf2fnt.py lines 289-299: the cells verify_glyph prints, 1 for a block
VerifyShown(bitmap, target_width, target_height) ==
    [y \in 1..target_height |-> [x \in 1..target_width |->
        ShownBit(bitmap, target_width, y - 1, x - 1)]]

\* a reader that takes bit (i mod 8) of the byte, least significant bit first
PreviewBitLSB(bitmap, bit_index) ==
    LET byte_idx == bit_index \div 8
        bit_pos == bit_index % 8
    IN IF byte_idx < Len(bitmap) THEN (bitmap[byte_idx + 1] \div Pow2(bit_pos)) % 2 ELSE 0

\* ttf2fnt.py lines 256-261: the cell printed for the running bit_index
PreviewBit(bitmap, bit_index) ==
    LET byte_idx == bit_index \div 8
        bit_pos == 7 - (bit_index % 8)
    IN IF byte_idx < Len(bitmap) THEN (bitmap[byte_idx + 1] \div Pow2(bit_pos)) % 2 ELSE 0

\* ttf2fnt.py lines 252-263: bit_index starts at 0 and is stepped once per
\* cell, row by row, so the cell (y, x) is printed with bit_index y*width + x
PreviewShown(bitmap, width, height) ==
    [y \in 1..height |-> [x \in 1..width |-> PreviewBit(bitmap, (y - 1) * width + (x - 1))]]

RasterWidth(raster) == IF Len(raster) = 0 THEN 0 ELSE Len(raster[1])

InitShow ==
    /\ tool = "show"
    /\ args \in [raster : Rasters]
    /\ pc = "start"
    /\ codepoints = <<>>
    /\ cursor = 0
    /\ returns = <<>>
    /\ glyphs = <<>>
    /\ mem = [verify |-> <<>>, preview |-> <<>>]
    /\ file = NoFile
    /\ before = file
    /\ exit = -1

\* bdf2fnt.py lines 176-188 then 289-299 on the raster as canvas
ShowVerify ==
    /\ tool = "show" /\ pc = "start"
    /\ mem' = [mem EXCEPT !.verify =
                  VerifyShown(PackCanvasBits(FlattenCanvas(args.raster)),
                              RasterWidth(args.raster), Len(args.raster))]
    /\ pc' = "verified"
    /\ UNCHANGED <<tool, args, codepoints, cursor, returns, glyphs, file, before, exit>>

\* ttf2fnt.py lines 120-139 then 252-263 on the raster as glyph_binary
ShowPreview ==
    /\ tool = "show" /\ pc = "verified"
    /\ mem' = [mem EXCEPT !.preview =
                  PreviewShown(PackPixels(Concat(args.raster), <<>>, 0, 0),
                               RasterWidth(args.raster), Len(args.raster))]
    /\ pc' = "done"
    /\ UNCHANGED <<tool, args, codepoints, cursor, returns, glyphs, file, before, exit>>

NextShow == ShowVerify \/ ShowPreview

SpecShow == InitShow /\ [][NextShow]_vars

\* C22: preview decoding inverts packing - for every W x H binary raster,
\* packing it and then reading pixel (x, y) as bit 7 - ((y*W + x) mod 8) of
\* byte (y*W + x) div 8, as verify_glyph and preview_glyph do, gives back the
\* raster, in both tools.
C22_PreviewInvertsPacking ==
    tool = "show" =>
        /\ pc \in {"verified", "done"} => mem.verify = args.raster
        /\ pc = "done" => mem.preview = args.raster

C22_Witness ==
    /\ tool = "show" /\ pc = "done"
    /\ RasterWidth(args.raster) = 5 /\ Len(args.raster) = 2
    /\ args.raster[1] = <<1, 0, 0, 0, 0>> /\ args.raster[2] = <<0, 0, 1, 0, 1>>
    /\ mem.verify = args.raster /\ mem.preview = args.raster

(***************************************************************************)
(* render_glyph on its own (ttf2fnt.py lines 67-139): one call for one     *)
(* codepoint, with the rasterizer's measurement as the input.              *)
(***************************************************************************)
InitGlyph ==
    /\ tool = "glyph"
    /\ args \in [m : Measurements, codepoint : CmapKeys, size : Sizes]
    /\ pc = "start"
    /\ codepoints = <<>>
    /\ cursor = 0
    /\ returns = <<>>
    /\ glyphs = <<>>
    /\ mem = Unavailable
    /\ file = NoFile
    /\ before = file
    /\ exit = -1

\* bitmap, width, height = render_glyph(font, codepoint, size)
RenderGlyphCall ==
    /\ tool = "glyph" /\ pc = "start"
    /\ mem' = render_glyph(args.m, args.codepoint, args.size)
    /\ pc' = "done"
    /\ UNCHANGED <<tool, args, codepoints, cursor, returns, glyphs, file, before, exit>>

NextGlyph == RenderGlyphCall

SpecGlyph == InitGlyph /\ [][NextGlyph]_vars

\* rows and columns of the canvas that hold a non-zero pixel
InkRows(img) == {r \in 1..Len(img) : \E c \in 1..Len(img[r]) : img[r][c] # 0}
InkCols(img) == {c \in 1..Len(img[1]) : \E r \in 1..Len(img) : img[r][c] # 0}
Highest(S) == CHOOSE x \in S : \A y \in S : x >= y
\* the call rendered a codepoint with a non-empty ink box and emitted a glyph
EmittedInk ==
    /\ tool = "glyph" /\ pc = "done"
    /\ args.m.bbox = "box" /\ args.m.w > 0 /\ args.m.h > 0
    /\ mem.avail
\* output bit (r, c), 0-based, of the emitted glyph
EmittedBit(r, c) == PackedBit(mem.bitmap, r * mem.width + c)
\* width and height are the extent of the non-zero pixels, and bit (r, c)
\* is set iff the cropped pixel is brighter than 30
CropAndThreshold ==
    LET img == args.m.img
        top == Lowest(InkRows(img))
        left == Lowest(InkCols(img))
    IN /\ mem.height = Highest(InkRows(img)) - top + 1
       /\ mem.width = Highest(InkCols(img)) - left + 1
       /\ Len(mem.bitmap) = CeilDiv8(mem.width * mem.height)
       /\ \A r \in 0..(mem.height - 1) : \A c \in 0..(mem.width - 1) :
             EmittedBit(r, c) = 1 <=> img[top + r][left + c] > 30
\* the first and the last row and column each hold a set bit
TightEdges ==
    /\ \A r \in {0, mem.height - 1} : \E c \in 0..(mem.width - 1) : EmittedBit(r, c) = 1
    /\ \A c \in {0, mem.width - 1} : \E r \in 0..(mem.height - 1) : EmittedBit(r, c) = 1

\* C23: crop and threshold - for a codepoint with a non-empty ink box the
\* width and height render_glyph returns are the extent of the non-zero
\* pixels of the rendered grayscale canvas, output bit (r, c) is set iff the
\* cropped pixel is brighter than 30, and the first and last row and the
\* first and last column of every emitted glyph each contain a set bit.
C23_CropAndThreshold ==
    EmittedInk => (CropAndThreshold /\ TightEdges)

\* the part of C23 without the statement on the edges
C23_CropAndThresholdOnly ==
    EmittedInk => CropAndThreshold

\* canvas pixel (r, c), 0-based, lies inside the glyph's bounding box as the
\* placement puts it on the canvas
InBoundingBox(glyph, font_ascent, r, c) ==
    /\ r >= GlyphTop(glyph, font_ascent)
    /\ r < GlyphTop(glyph, font_ascent) + glyph.bbx_h
    /\ c >= glyph.bbx_x
    /\ c < glyph.bbx_x + glyph.bbx_w

\* C24: bounding-box confinement - every pixel render_glyph_to_fixed_size
\* sets lies in rows [top, top + bbx_h) and columns [bbx_x, bbx_x + bbx_w) of
\* the canvas, also when the glyph record has more bitmap rows than bbx_h or
\* rows with bits beyond the byte-aligned width.
C24_BoundingBoxConfinement ==
    (tool = "render" /\ pc = "done") =>
        \A r \in 0..(args.target_height - 1) : \A c \in 0..(args.target_width - 1) :
            mem.canvas[r + 1][c + 1] = 1 =>
                InBoundingBox(args.glyph, args.font_ascent, r, c)

\* the part of C24 on the columns
C24_ColumnConfinement ==
    (tool = "render" /\ pc = "done") =>
        \A r \in 0..(args.target_height - 1) : \A c \in 0..(args.target_width - 1) :
            mem.canvas[r + 1][c + 1] = 1 =>
                /\ c >= args.glyph.bbx_x
                /\ c < args.glyph.bbx_x + args.glyph.bbx_w

\* every numeric field of the source is a number and every line without a
\* keyword is blank or a hexadecimal row: what is unusual about the source,
\* if anything, is only where its marker lines stand
FieldsValid(lines) ==
    \A i \in 1..Len(lines) :
        /\ lines[i].key \in {"FONTBOUNDINGBOX", "BBX"} => HasIntFields(lines[i], 4)
        /\ lines[i].key \in {"FONT_ASCENT", "FONT_DESCENT", "CHARS", "ENCODING", "DWIDTH"} =>
              HasIntFields(lines[i], 1)
        /\ lines[i].key = "" =>
              \/ lines[i].fields = <<>>
              \/ Len(lines[i].fields) = 1 /\ ParseInt(lines[i].fields[1], 16).ok

\* C25: parser termination - for every finite sequence of lines, including a
\* STARTCHAR without ENDCHAR, a BITMAP section that runs to the end of the
\* file and nested or repeated markers, every iteration of parse_bdf's loops
\* moves the shared cursor forward and never backwards, and the scan ends by
\* returning: a step that does not advance the cursor is the return.
C25_ParserTermination ==
    [][(tool = "parse" /\ FieldsValid(args.lines)) =>
          /\ cursor' >= cursor
          /\ cursor' <= Len(args.lines) + 1
          /\ cursor' = cursor => pc' = "returned"]_vars

\* the part of C25 on the cursor, for every source: each iteration moves the
\* cursor forward by one line, and the scan ends after at most one step per
\* line, by returning or by raising
C25_CursorAdvances ==
    [][tool = "parse" =>
          /\ cursor' \in {cursor, cursor + 1}
          /\ cursor' <= Len(args.lines) + 1
          /\ cursor' = cursor => pc' \in {"returned", "raised"}]_vars

(***************************************************************************)
(* ota_server.py: OTAServer and the files it serves.  A file on disk is    *)
(*   exists : whether the path exists                                      *)
(*   image  : its content, as the size and the SHA-256 of its bytes        *)
(*   mtime  : os.path.getmtime of the path                                 *)
(* The variable file holds the firmware and the web-asset file, cursor is  *)
(* the file system's clock, mem the OTAServer object, returns the response *)
(* of the last request and before the files as the request's               *)
(* before-request check found them.                                        *)
(***************************************************************************)
MaxWrites == 3      \* changes made to the served files during a run

ESP_APP_DESC_OFFSET == 32
ESP_APP_DESC_SIZE == 196

\* contents a served file can have: two full images of the same size and
\* one that is too short to hold an esp_app_desc_t
Images ==
    {[size |-> 512, sha256 |-> "aa"], [size |-> 512, sha256 |-> "bb"],
     [size |-> 16, sha256 |-> "cc"]}

Absent == [exists |-> FALSE, image |-> [size |-> 0, sha256 |-> ""], mtime |-> 0]

\* FirmwareInfo(): the fields the responses use; loaded = FALSE is None
NoInfo == [loaded |-> FALSE, valid |-> FALSE, size |-> 0, sha256 |-> ""]

\* parse_firmware(filepath) on an existing file, lines 144-181
parse_firmware(f) ==
    [loaded |-> TRUE,
     valid |-> f.image.size >= ESP_APP_DESC_OFFSET + ESP_APP_DESC_SIZE,
     size |-> f.image.size, sha256 |-> f.image.sha256]

\* OTAServer._load_firmware_info, lines 243-268: a missing file is logged
\* and its info is left as it was
load_firmware_info(server, files, www_path) ==
    LET s1 == IF files.firmware.exists
              THEN [server EXCEPT !.firmware_mtime = files.firmware.mtime,
                                  !.firmware_info = parse_firmware(files.firmware)]
              ELSE server
    IN IF www_path /\ files.www.exists
       THEN [s1 EXCEPT !.www_mtime = files.www.mtime,
                       !.www_info = [loaded |-> TRUE, valid |-> TRUE,
                                     size |-> files.www.image.size,
                                     sha256 |-> files.www.image.sha256]]
       ELSE s1

\* OTAServer._check_file_changed, lines 221-241
check_file_changed(server, files, www_path) ==
    LET changed ==
            \/ files.firmware.exists /\ files.firmware.mtime # server.firmware_mtime
            \/ www_path /\ files.www.exists /\ files.www.mtime # server.www_mtime
    IN IF changed THEN load_firmware_info(server, files, www_path) ELSE server

\* OTAServer.__init__, lines 201-206 and 219
NewServer(files, www_path) ==
    load_firmware_info([firmware_info |-> NoInfo, www_info |-> NoInfo,
                        firmware_mtime |-> 0, www_mtime |-> 0], files, www_path)

\* the /version handler, lines 326-344
version(server) ==
    IF ~server.firmware_info.loaded \/ ~server.firmware_info.valid
    THEN [route |-> "version", status |-> 503, firmware_available |-> FALSE,
          size |-> 0, sha256 |-> "", www_available |-> FALSE, www_size |-> 0,
          www_sha256 |-> ""]
    ELSE [route |-> "version", status |-> 200, firmware_available |-> TRUE,
          size |-> server.firmware_info.size, sha256 |-> server.firmware_info.sha256,
          www_available |-> server.www_info.loaded /\ server.www_info.valid,
          www_size |-> IF server.www_info.loaded /\ server.www_info.valid
                       THEN server.www_info.size ELSE 0,
          www_sha256 |-> IF server.www_info.loaded /\ server.www_info.valid
                         THEN server.www_info.sha256 ELSE ""]

\* the /health handler, lines 309-321
health(server) ==
    [route |-> "health", status |-> 200,
     firmware_available |-> server.firmware_info.loaded /\ server.firmware_info.valid,
     size |-> 0, sha256 |-> "",
     www_available |-> server.www_info.loaded /\ server.www_info.valid,
     www_size |-> 0, www_sha256 |-> ""]

\* main, lines 583-592: the firmware file exists when the server is built;
\* the web-asset path may be left out, and its file may be missing
InitOta ==
    /\ tool = "ota"
    /\ args \in [www_path : BOOLEAN]
    /\ file \in [firmware : {[exists |-> TRUE, image |-> i, mtime |-> 1] : i \in Images},
                 www : {Absent} \cup {[exists |-> TRUE, image |-> i, mtime |-> 1] :
                                        i \in Images}]
    /\ (~args.www_path => file.www = Absent)
    /\ pc = "serving"
    /\ codepoints = <<>>
    /\ cursor = 1
    /\ returns = <<>>
    /\ glyphs = <<>>
    /\ mem = NewServer(file, args.www_path)
    /\ before = file
    /\ exit = -1

\* a build overwrites a served file: new content, new modification time
ModifyFile ==
    /\ tool = "ota" /\ cursor <= MaxWrites
    /\ \E p \in (IF args.www_path THEN {"firmware", "www"} ELSE {"firmware"}) : \E i \in Images :
          /\ file[p].exists /\ file[p].image # i
          /\ file' = [file EXCEPT ![p] = [exists |-> TRUE, image |-> i, mtime |-> cursor + 1]]
    /\ cursor' = cursor + 1
    /\ UNCHANGED <<tool, pc, args, codepoints, returns, glyphs, mem, before, exit>>

\* a served file is removed
DeleteFile ==
    /\ tool = "ota" /\ cursor <= MaxWrites
    /\ \E p \in (IF args.www_path THEN {"firmware", "www"} ELSE {"firmware"}) :
          /\ file[p].exists
          /\ file' = [file EXCEPT ![p] = Absent]
    /\ cursor' = cursor + 1
    /\ UNCHANGED <<tool, pc, args, codepoints, returns, glyphs, mem, before, exit>>

\* a missing file is written again
RecreateFile ==
    /\ tool = "ota" /\ cursor <= MaxWrites
    /\ \E p \in (IF args.www_path THEN {"firmware", "www"} ELSE {"firmware"}) : \E i \in Images :
          /\ ~file[p].exists
          /\ file' = [file EXCEPT ![p] = [exists |-> TRUE, image |-> i, mtime |-> cursor + 1]]
    /\ cursor' = cursor + 1
    /\ UNCHANGED <<tool, pc, args, codepoints, returns, glyphs, mem, before, exit>>

\* GET /version: check_updates (lines 273-276), then the handler
GetVersion ==
    /\ tool = "ota"
    /\ mem' = check_file_changed(mem, file, args.www_path)
    /\ returns' = <<version(mem')>>
    /\ before' = file
    /\ UNCHANGED <<tool, pc, args, codepoints, cursor, glyphs, file, exit>>

\* GET /health: check_updates, then the handler
GetHealth ==
    /\ tool = "ota"
    /\ mem' = check_file_changed(mem, file, args.www_path)
    /\ returns' = <<health(mem')>>
    /\ before' = file
    /\ UNCHANGED <<tool, pc, args, codepoints, cursor, glyphs, file, exit>>

\* POST /reload, lines 370-379: check_updates, then _load_firmware_info
PostReload ==
    /\ tool = "ota"
    /\ mem' = load_firmware_info(check_file_changed(mem, file, args.www_path),
                                 file, args.www_path)
    /\ returns' = <<[route |-> "reload", status |-> 200,
                     firmware_available |-> mem'.firmware_info.loaded
                                            /\ mem'.firmware_info.valid,
                     size |-> 0, sha256 |-> "",
                     www_available |-> mem'.www_info.loaded /\ mem'.www_info.valid,
                     www_size |-> 0, www_sha256 |-> ""]>>
    /\ before' = file
    /\ UNCHANGED <<tool, pc, args, codepoints, cursor, glyphs, file, exit>>

NextOta ==
    \/ ModifyFile \/ DeleteFile \/ RecreateFile
    \/ GetVersion \/ GetHealth \/ PostReload

SpecOta == InitOta /\ [][NextOta]_vars

\* what a request should report for the files found by its check
FreshFirmwareAvailable ==
    before.firmware.exists /\ parse_firmware(before.firmware).valid
FreshWwwAvailable == args.www_path /\ before.www.exists

\* C26: OTA metadata freshness - after any sequence of changes to the
\* firmware or web-asset file (modify, delete, recreate) interleaved with
\* requests, the availability, size and SHA-256 a request reports from the
\* cached FirmwareInfo are those of the file as the request's before-request
\* check found it; a file deleted since the last load is not reported as
\* available.
C26_MetadataFreshness ==
    (tool = "ota" /\ returns # <<>>) =>
        LET r == returns[1]
        IN /\ r.firmware_available = FreshFirmwareAvailable
           /\ (r.route = "version" /\ r.status = 200) =>
                 /\ r.size = before.firmware.image.size
                 /\ r.sha256 = before.firmware.image.sha256
                 /\ r.www_available = FreshWwwAvailable
                 /\ r.www_available =>
                       /\ r.www_size = before.www.image.size
                       /\ r.www_sha256 = before.www.image.sha256
           /\ r.route \in {"health", "reload"} => r.www_available = FreshWwwAvailable

\* the part of C26 on files that exist at the check, when every write moves
\* the modification time: what is reported for them is what they hold
C26_FreshWhilePresent ==
    (tool = "ota" /\ returns # <<>>) =>
        LET r == returns[1]
        IN /\ before.firmware.exists =>
                 /\ r.firmware_available = FreshFirmwareAvailable
                 /\ (r.route = "version" /\ r.status = 200) =>
                       /\ r.size = before.firmware.image.size
                       /\ r.sha256 = before.firmware.image.sha256
           /\ (args.www_path /\ before.www.exists
               /\ (r.route = "version" => r.status = 200)) =>
                 /\ r.www_available
                 /\ r.route = "version" =>
                       /\ r.www_size = before.www.image.size
                       /\ r.www_sha256 = before.www.image.sha256

====
